---- MODULE Spec2Model ----
(***************************************************************************)
(* Book exchange platform back end (Back-end/app.py): the session          *)
(* registry (active_tokens), the relational store (users, books,           *)
(* favorites, exchange_requests, completed_exchanges) and the HTTP         *)
(* handlers that read and write them.                                      *)
(*                                                                         *)
(* Strings are TLA+ strings; Len, SubSeq and \o act on them as Python's    *)
(* len, slicing and + do.  Time is counted in hours.  CURRENT_TIMESTAMP    *)
(* and datetime.now() both read the clock `now`.                           *)
(*                                                                         *)
(* The specifications share the handlers:                                  *)
(*   Spec          the exchange workflow, every handler one atomic step;   *)
(*   SpecSession   the session registry under every kind of Authorization  *)
(*                 header, with the clock running past the token expiry;   *)
(*   SpecAuth, SpecLibrary, SpecListing, SpecSearch, SpecClient,           *)
(*   SpecHealth    accounts, the library, the listings, the catalog, the   *)
(*                 test client and the health check, handlers atomic;      *)
(*   SpecTxn, SpecSignup, SpecRegistry, SpecRace                           *)
(*                 update_request, signup, the registry lookup, and        *)
(*                 request_exchange with add_book, statement by statement, *)
(*                 several calls interleaved.                              *)
(***************************************************************************)
EXTENDS Integers, Sequences, FiniteSets, TLC

\* ------------------------------------------------------------------ bounds
\* tokens generate_token hands out in one run
MaxTokens == 2
\* clock steps in SpecSession, and in Spec
MaxTicks == 2
ExchangeTicks == 1
\* rows per table
MaxBooks == 2
MaxRequests == 2
MaxCompleted == 2
MaxFavorites == 2
\* rows in books, favorites and exchange_requests together, in SpecSession
SessionRows == 1
\* concurrent calls of update_request in SpecTxn
MaxProcs == 2
\* tokens handed out in SpecAuth, and clock steps in SpecAuth and SpecSearch
AuthTokens == 3
AuthTicks == 1
\* rows of exchange_requests, and clock steps, in SpecListing
ListingRequests == 2
ListingTicks == 1
\* rows of books in SpecRace
RaceBooks == 3

\* ------------------------------------------------------- program constants
\* timedelta(hours=24)
TokenTTLHours == 24

\* The clock advances in steps of one token lifetime, so that a token is
\* seen before, exactly at, and past its expiry.
TickHours == TokenTTLHours

\* Python's None for a user id; AUTOINCREMENT ids start at 1.
NoUser == 0

\* The k-th value generate_token returns in a run.
TokenNames == <<"tokA", "tokB", "tokC", "tokD", "tokE">>
Tokens == {TokenNames[i] : i \in 1..MaxTokens}

\* Authorization header values a client may send; "" is the missing header
\* (headers.get returns None, which the code tests with the same `if token`).
BearerHeaders == {"Bearer " \o t : t \in Tokens}
Headers == {""} \cup BearerHeaders \cup Tokens \cup {"Basic " \o t : t \in Tokens}

Credentials ==
    { [username |-> "alice", email |-> "alice@x.org", password |-> "secret1"],
      [username |-> "bob", email |-> "bob@x.org", password |-> "hunter22"] }

Titles == {"Dune"}
Authors == {"Herbert"}
Decisions == {"accepted", "rejected", "pending"}

VARIABLES
    users,                \* table users: id = position
    active_tokens,        \* dict token -> [user_id, expires]
    now,                  \* the clock, in hours
    books,                \* table books: id = position
    favorites,            \* table favorites: rows carry their id
    fav_seq,              \* the last id AUTOINCREMENT gave a favorite
    exchange_requests,    \* table exchange_requests: id = position
    completed_exchanges,  \* table completed_exchanges: id = position
    last,                 \* the call just served and its response
    issued,               \* history: token -> expiry given at issuance
    revoked,              \* history: tokens removed by logout
    pc,                   \* SpecTxn: where each call of update_request stands
    call,                 \* SpecTxn: the arguments and locals of each call
    tx,                   \* SpecTxn: the uncommitted writes of each connection
    wlock                 \* SpecTxn: the connection holding the write lock

store == <<users, books, favorites, fav_seq, exchange_requests, completed_exchanges>>
txnvars == <<pc, call, tx, wlock>>
vars == <<users, active_tokens, now, books, favorites, fav_seq, exchange_requests,
          completed_exchanges, last, issued, revoked, txnvars>>

\* ----------------------------------------------------------------- helpers
startswith(s, p) == Len(s) >= Len(p) /\ SubSeq(s, 1, Len(p)) = p

RECURSIVE lstrip(_)
lstrip(s) ==
    IF Len(s) > 0 /\ SubSeq(s, 1, 1) = " " THEN lstrip(SubSeq(s, 2, Len(s))) ELSE s

RECURSIVE rstrip(_)
rstrip(s) ==
    IF Len(s) > 0 /\ SubSeq(s, Len(s), Len(s)) = " "
    THEN rstrip(SubSeq(s, 1, Len(s) - 1)) ELSE s

strip(s) == rstrip(lstrip(s))

hash_password(password) == "sha256:" \o password

Drop(f, k) == [x \in DOMAIN f \ {k} |-> f[x]]
Put(f, k, v) == [x \in DOMAIN f \cup {k} |-> IF x = k THEN v ELSE f[x]]
EmptyMap == [x \in {} |-> 0]

\* ---------------------------------------------------- calls in progress
Procs == 1..MaxProcs
NoWriter == 0
NoRow == [requester_id |-> NoUser, owner_id |-> NoUser, book_id |-> 0,
          status |-> "", created_at |-> 0, updated_at |-> 0]
\* A call not yet made.
NoCall == [user_id |-> NoUser, request_id |-> 0, status |-> "", row |-> NoRow,
           code |-> 0, failed_at |-> ""]
\* A connection with no transaction open.
NoTx == [open |-> FALSE, exchange_requests |-> <<>>, completed_exchanges |-> <<>>]
TxnIdle ==
    /\ pc = [p \in Procs |-> "idle"]
    /\ call = [p \in Procs |-> NoCall]
    /\ tx = [p \in Procs |-> NoTx]
    /\ wlock = NoWriter

\* The call served: the handler, the Authorization header, the user the
\* header resolved to, the argument and value of the call, the status code,
\* (update_request) the status the request had before the call,
\* (request_exchange) the request_id of the response body, and (my_requests,
\* get_exchange_books) the lists of the response body.
Reply(op, hdr, uid, arg, val, code, pre) ==
    [op |-> op, hdr |-> hdr, user_id |-> uid, arg |-> arg, val |-> val,
     code |-> code, pre |-> pre, id |-> 0, body |-> <<>>]

ReplyId(reply, id) == [reply EXCEPT !.id = id]
ReplyBody(reply, body) == [reply EXCEPT !.body = body]

\* A call the wrapper of require_auth turned away: the handler never ran.
Reply401(op, hdr) == Reply(op, hdr, NoUser, 0, "", 401, "")

\* ------------------------------------------------------- session registry
\* Mutant: the expiry is never tested.
get_user_from_token_no_expiry(token) ==
    IF token = "" THEN [user_id |-> NoUser, active_tokens |-> active_tokens]
    ELSE IF token \notin DOMAIN active_tokens
    THEN [user_id |-> NoUser, active_tokens |-> active_tokens]
    ELSE [user_id |-> active_tokens[token].user_id, active_tokens |-> active_tokens]

\* Mutant: the entry is evicted from the hour of its expiry on (>= for >).
get_user_from_token_evict_at_expiry(token) ==
    IF token = "" THEN [user_id |-> NoUser, active_tokens |-> active_tokens]
    ELSE IF token \notin DOMAIN active_tokens
    THEN [user_id |-> NoUser, active_tokens |-> active_tokens]
    ELSE IF now >= active_tokens[token].expires
    THEN [user_id |-> NoUser, active_tokens |-> Drop(active_tokens, token)]
    ELSE [user_id |-> active_tokens[token].user_id, active_tokens |-> active_tokens]

\* get_user_from_token: the user id it returns and the registry it leaves.
get_user_from_token(token) ==
    IF token = "" THEN [user_id |-> NoUser, active_tokens |-> active_tokens]
    ELSE IF token \notin DOMAIN active_tokens
    THEN [user_id |-> NoUser, active_tokens |-> active_tokens]
    ELSE IF now > active_tokens[token].expires
    THEN [user_id |-> NoUser, active_tokens |-> Drop(active_tokens, token)]
    ELSE [user_id |-> active_tokens[token].user_id, active_tokens |-> active_tokens]

\* Mutant: the prefix 'Bearer ' is not cut off.
bearer_token_prefix_kept(hdr) == hdr

\* The token the wrapper of require_auth hands to get_user_from_token: the
\* Authorization header, which is all the wrapper reads of a request (no
\* handler reads request.cookies, and no response sets a cookie).
bearer_token(hdr) ==
    IF hdr # "" /\ startswith(hdr, "Bearer ") THEN SubSeq(hdr, 8, Len(hdr)) ELSE hdr

require_auth(hdr) == get_user_from_token(bearer_token(hdr))

\* generate_token: a value never returned before (token_urlsafe(32) repeats a
\* value with probability 2^-256); the values are named in the order they
\* are drawn.
CanGenerate == Cardinality(DOMAIN issued) < Len(TokenNames)
generate_token == TokenNames[Cardinality(DOMAIN issued) + 1]

Init ==
    /\ users = <<>>
    /\ active_tokens = EmptyMap
    /\ now = 0
    /\ books = <<>>
    /\ favorites = <<>>
    /\ fav_seq = 0
    /\ exchange_requests = <<>>
    /\ completed_exchanges = <<>>
    /\ last = Reply("init", "", NoUser, 0, "", 0, "")
    /\ issued = EmptyMap
    /\ revoked = {}
    /\ TxnIdle

\* The wall clock advances.
Tick ==
    /\ UNCHANGED txnvars
    /\ now' = now + TickHours
    /\ last' = Reply("tick", "", NoUser, 0, "", 0, "")
    /\ UNCHANGED <<store, active_tokens, issued, revoked>>

\* ---------------------------------------------------------- authentication
UsernameTaken(username) == \E i \in DOMAIN users : users[i].username = username
EmailTaken(email) == \E i \in DOMAIN users : users[i].email = email

\* active_tokens[token] = {user_id, expires: now + 24 h}
issue_token(token, user_id) ==
    /\ active_tokens' = Put(active_tokens, token,
                            [user_id |-> user_id, expires |-> now + TokenTTLHours])
    /\ issued' = Put(issued, token, now + TokenTTLHours)

signup(username_in, email_in, password) ==
    LET username == strip(username_in)
        email == strip(email_in)
    IN  /\ UNCHANGED txnvars
        /\ UNCHANGED <<now, books, favorites, fav_seq, exchange_requests,
                       completed_exchanges, revoked>>
        /\ IF username = "" \/ email = "" \/ password = ""
           THEN /\ last' = Reply("signup", "", NoUser, 0, username, 400, "")
                /\ UNCHANGED <<users, active_tokens, issued>>
           ELSE IF Len(password) < 6
           THEN /\ last' = Reply("signup", "", NoUser, 0, username, 400, "")
                /\ UNCHANGED <<users, active_tokens, issued>>
           ELSE IF UsernameTaken(username) \/ EmailTaken(email)
           THEN /\ last' = Reply("signup", "", NoUser, 0, username, 409, "")
                /\ UNCHANGED <<users, active_tokens, issued>>
           ELSE LET token == generate_token IN
                /\ CanGenerate
                /\ users' = Append(users, [username |-> username, email |-> email,
                                           password_hash |-> hash_password(password)])
                /\ issue_token(token, Len(users) + 1)
                /\ last' = Reply("signup", "", Len(users) + 1, 0, token, 201, "")

\* Mutant: the lookup returns the first row of the table whenever the name
\* is known.
find_by_username_first_row(username) ==
    IF \E i \in DOMAIN users : users[i].username = username THEN 1 ELSE NoUser

\* SELECT ... FROM users WHERE username = ?  (NoUser: no such row)
find_by_username(username) ==
    IF \E i \in DOMAIN users : users[i].username = username
    THEN CHOOSE i \in DOMAIN users : users[i].username = username
    ELSE NoUser

login(username_in, password) ==
    LET username == strip(username_in)
        user == find_by_username(username)
    IN  /\ UNCHANGED txnvars
        /\ UNCHANGED <<store, now, revoked>>
        /\ IF username = "" \/ password = ""
           THEN /\ last' = Reply("login", "", NoUser, 0, username, 400, "")
                /\ UNCHANGED <<active_tokens, issued>>
           ELSE IF user # NoUser /\ users[user].password_hash = hash_password(password)
           THEN LET token == generate_token IN
                /\ CanGenerate
                /\ issue_token(token, user)
                /\ last' = Reply("login", "", user, 0, token, 200, "")
           ELSE /\ last' = Reply("login", "", NoUser, 0, username, 401, "")
                /\ UNCHANGED <<active_tokens, issued>>

logout(hdr) ==
    LET token == SubSeq(hdr, 8, Len(hdr))
        hit == hdr # "" /\ startswith(hdr, "Bearer ") /\ token \in DOMAIN active_tokens
    IN  /\ UNCHANGED txnvars
        /\ active_tokens' = IF hit THEN Drop(active_tokens, token) ELSE active_tokens
        /\ revoked' = IF hit THEN revoked \cup {token} ELSE revoked
        /\ last' = Reply("logout", hdr, NoUser, 0, "", 200, "")
        /\ UNCHANGED <<store, now, issued>>

\* ------------------------------------------------------ read-only handlers
\* get_profile runs SELECTs only: behind require_auth it answers 200 and
\* writes nothing.
read_handler(op, hdr) ==
    LET auth == require_auth(hdr)
    IN  /\ UNCHANGED txnvars
        /\ active_tokens' = auth.active_tokens
        /\ UNCHANGED <<store, now, issued, revoked>>
        /\ last' = IF auth.user_id = NoUser THEN Reply401(op, hdr)
                   ELSE Reply(op, hdr, auth.user_id, 0, "", 200, "")

get_profile(hdr) == read_handler("get_profile", hdr)

\* Mutant: ORDER BY ... ASC.
order_by_asc(ids, key) ==
    {s \in [1..Cardinality(ids) -> ids] :
        \A i, j \in 1..Cardinality(ids) :
            i < j => s[i] # s[j] /\ key[s[i]] <= key[s[j]]}

\* ORDER BY key DESC: the sequences a result set may come in; rows with
\* equal keys come in any order.
order_by_desc(ids, key) ==
    {s \in [1..Cardinality(ids) -> ids] :
        \A i, j \in 1..Cardinality(ids) :
            i < j => s[i] # s[j] /\ key[s[i]] >= key[s[j]]}

\* SELECT ... FROM favorites WHERE user_id = ?: the positions of the rows.
my_favorite_rows(user_id) ==
    {f \in DOMAIN favorites : favorites[f].user_id = user_id}

\* GET /myFavorites: the caller's favorites, newest added first.
my_favorites(hdr) ==
    LET auth == require_auth(hdr)
        added_at == [f \in DOMAIN favorites |-> favorites[f].added_at]
    IN  /\ UNCHANGED txnvars
        /\ active_tokens' = auth.active_tokens
        /\ UNCHANGED <<store, now, issued, revoked>>
        /\ IF auth.user_id = NoUser
           THEN last' = Reply401("my_favorites", hdr)
           ELSE \E s \in order_by_desc(my_favorite_rows(auth.user_id), added_at) :
                   last' = ReplyBody(Reply("my_favorites", hdr, auth.user_id, 0, "",
                                           200, ""),
                                     [favorites |->
                                         [i \in DOMAIN s |->
                                             [id |-> favorites[s[i]].id,
                                              title |-> favorites[s[i]].book_title,
                                              author |-> favorites[s[i]].book_author]],
                                      count |-> Len(s)])

\* SELECT ... FROM books WHERE user_id = ?
my_book_ids(user_id) == {b \in DOMAIN books : books[b].user_id = user_id}

\* GET /myBooks: the caller's books, newest added first.
my_books(hdr) ==
    LET auth == require_auth(hdr)
        added_at == [b \in DOMAIN books |-> books[b].added_at]
    IN  /\ UNCHANGED txnvars
        /\ active_tokens' = auth.active_tokens
        /\ UNCHANGED <<store, now, issued, revoked>>
        /\ IF auth.user_id = NoUser
           THEN last' = Reply401("my_books", hdr)
           ELSE \E s \in order_by_desc(my_book_ids(auth.user_id), added_at) :
                   last' = ReplyBody(Reply("my_books", hdr, auth.user_id, 0, "",
                                           200, ""),
                                     [books |->
                                         [i \in DOMAIN s |->
                                             [id |-> s[i], title |-> books[s[i]].title,
                                              author |-> books[s[i]].author]],
                                      count |-> Len(s)])

\* ---------------------------------------------------------- catalog search
UpperCase == "ABCDEFGHIJKLMNOPQRSTUVWXYZ"
LowerCase == "abcdefghijklmnopqrstuvwxyz"

\* str.lower() on one character.
lower_char(c) ==
    IF \E i \in 1..Len(UpperCase) : SubSeq(UpperCase, i, i) = c
    THEN LET i == CHOOSE i \in 1..Len(UpperCase) : SubSeq(UpperCase, i, i) = c
         IN  SubSeq(LowerCase, i, i)
    ELSE c

RECURSIVE lower(_)
lower(s) ==
    IF s = "" THEN "" ELSE lower_char(SubSeq(s, 1, 1)) \o lower(SubSeq(s, 2, Len(s)))

\* needle in hay
contains(hay, needle) ==
    \E i \in 0..(Len(hay) - Len(needle)) : SubSeq(hay, i + 1, i + Len(needle)) = needle

\* all_books of search_books: id, title, author (cover, description, isbn and
\* rating play no part in the search).
all_books ==
    << [id |-> "book1", title |-> "Harry Potter and the Philosopher's Stone",
        author |-> "J.K. Rowling"],
       [id |-> "book2", title |-> "To Kill a Mockingbird", author |-> "Harper Lee"],
       [id |-> "book3", title |-> "1984", author |-> "George Orwell"],
       [id |-> "book4", title |-> "Pride and Prejudice", author |-> "Jane Austen"],
       [id |-> "book5", title |-> "The Great Gatsby", author |-> "F. Scott Fitzgerald"],
       [id |-> "book6", title |-> "The Hobbit", author |-> "J.R.R. Tolkien"],
       [id |-> "book7", title |-> "The Catcher in the Rye", author |-> "J.D. Salinger"],
       [id |-> "book8", title |-> "Lord of the Flies", author |-> "William Golding"] >>

\* b['title'].lower(), b['author'].lower()
all_books_lower ==
    [i \in DOMAIN all_books |->
        [title |-> lower(all_books[i].title), author |-> lower(all_books[i].author)]]

\* Mutant: the filter looks at the title only.
book_matches_title_only(query, i) == contains(all_books_lower[i].title, query)

\* query in b['title'].lower() or query in b['author'].lower()
book_matches(query, i) ==
    \/ contains(all_books_lower[i].title, query)
    \/ contains(all_books_lower[i].author, query)

\* [b for b in all_books if ...]: the positions of all_books kept, in order.
RECURSIVE filter_books(_, _)
filter_books(query, n) ==
    IF n = 0 THEN <<>>
    ELSE IF book_matches(query, n) THEN Append(filter_books(query, n - 1), n)
    ELSE filter_books(query, n - 1)

\* GET /search?q=...: no authentication.  The response lists positions of
\* all_books.
search_books(q) ==
    LET query == lower(strip(q))
        hits == filter_books(query, Len(all_books))
        filtered == IF hits = <<>> THEN SubSeq(<<1, 2, 3, 4, 5, 6, 7, 8>>, 1, 4)
                    ELSE hits
    IN  /\ UNCHANGED txnvars
        /\ UNCHANGED <<store, active_tokens, now, issued, revoked>>
        /\ last' = IF query = ""
                   THEN Reply("search_books", "", NoUser, 0, q, 400, "")
                   ELSE ReplyBody(Reply("search_books", "", NoUser, 0, q, 200, ""),
                                  [books |-> filtered, count |-> Len(filtered)])

\* --------------------------------------------------------------- favorites
\* SELECT id FROM favorites WHERE user_id = ? AND book_title = ? AND book_author = ?
favorite_exists(user_id, title, author) ==
    \E f \in DOMAIN favorites :
        /\ favorites[f].user_id = user_id
        /\ favorites[f].book_title = title
        /\ favorites[f].book_author = author

add_favorite(hdr, title_in, author_in) ==
    LET auth == require_auth(hdr)
        title == strip(title_in)
        author == strip(author_in)
    IN  /\ UNCHANGED txnvars
        /\ active_tokens' = auth.active_tokens
        /\ UNCHANGED <<users, now, books, exchange_requests, completed_exchanges,
                       issued, revoked>>
        /\ IF auth.user_id = NoUser
           THEN /\ last' = Reply401("add_favorite", hdr)
                /\ UNCHANGED <<favorites, fav_seq>>
           ELSE IF title = "" \/ author = ""
           THEN /\ last' = Reply("add_favorite", hdr, auth.user_id, 0, title, 400, "")
                /\ UNCHANGED <<favorites, fav_seq>>
           ELSE IF favorite_exists(auth.user_id, title, author)
           THEN /\ last' = Reply("add_favorite", hdr, auth.user_id, 0, title, 409, "")
                /\ UNCHANGED <<favorites, fav_seq>>
           ELSE /\ fav_seq < MaxFavorites
                /\ fav_seq' = fav_seq + 1
                /\ favorites' = Append(favorites,
                       [id |-> fav_seq + 1, user_id |-> auth.user_id,
                        book_title |-> title, book_author |-> author,
                        added_at |-> now])
                /\ last' = Reply("add_favorite", hdr, auth.user_id, fav_seq + 1,
                                 title, 201, "")

\* Mutant: the DELETE has no AND user_id = ?.
favorite_hits_any_user(fav_id, user_id) ==
    {f \in DOMAIN favorites : favorites[f].id = fav_id}

\* The rows DELETE FROM favorites WHERE id = ? AND user_id = ? removes.
favorite_hits(fav_id, user_id) ==
    {f \in DOMAIN favorites :
        favorites[f].id = fav_id /\ favorites[f].user_id = user_id}

RECURSIVE without(_, _)
without(rows, hits) ==
    IF rows = <<>> THEN <<>>
    ELSE LET rest == without(SubSeq(rows, 1, Len(rows) - 1), hits)
         IN  IF Len(rows) \in hits THEN rest ELSE Append(rest, rows[Len(rows)])

remove_favorite(hdr, fav_id) ==
    LET auth == require_auth(hdr)
        hits == favorite_hits(fav_id, auth.user_id)
    IN  /\ UNCHANGED txnvars
        /\ active_tokens' = auth.active_tokens
        /\ UNCHANGED <<users, now, books, fav_seq, exchange_requests,
                       completed_exchanges, issued, revoked>>
        /\ IF auth.user_id = NoUser
           THEN /\ last' = Reply401("remove_favorite", hdr)
                /\ UNCHANGED favorites
           ELSE IF hits = {}
           THEN /\ last' = Reply("remove_favorite", hdr, auth.user_id, fav_id, "",
                                 404, "")
                /\ UNCHANGED favorites
           ELSE /\ favorites' = without(favorites, hits)
                /\ last' = Reply("remove_favorite", hdr, auth.user_id, fav_id, "",
                                 200, "")

\* ----------------------------------------------------------------- library
\* Mutant: the duplicate check leaves out user_id = ?.
book_exists_any_user(user_id, title, author) ==
    \E b \in DOMAIN books : books[b].title = title /\ books[b].author = author

\* SELECT id FROM books WHERE user_id = ? AND title = ? AND author = ?
book_exists(user_id, title, author) ==
    \E b \in DOMAIN books :
        /\ books[b].user_id = user_id
        /\ books[b].title = title
        /\ books[b].author = author

add_book(hdr, title_in, author_in) ==
    LET auth == require_auth(hdr)
        title == strip(title_in)
        author == strip(author_in)
    IN  /\ UNCHANGED txnvars
        /\ active_tokens' = auth.active_tokens
        /\ UNCHANGED <<users, now, favorites, fav_seq, exchange_requests,
                       completed_exchanges, issued, revoked>>
        /\ IF auth.user_id = NoUser
           THEN /\ last' = Reply401("add_book", hdr)
                /\ UNCHANGED books
           ELSE IF title = "" \/ author = ""
           THEN /\ last' = Reply("add_book", hdr, auth.user_id, 0, title, 400, "")
                /\ UNCHANGED books
           ELSE IF book_exists(auth.user_id, title, author)
           THEN /\ last' = Reply("add_book", hdr, auth.user_id, 0, title, 409, "")
                /\ UNCHANGED books
           ELSE /\ Len(books) < MaxBooks
                /\ books' = Append(books, [user_id |-> auth.user_id, title |-> title,
                                           author |-> author, added_at |-> now])
                /\ last' = Reply("add_book", hdr, auth.user_id, Len(books) + 1,
                                 title, 201, "")

\* ------------------------------------------------------ exchange workflow
\* SELECT user_id FROM books WHERE id = ?  (NoUser: no such row)
book_owner(book_id) ==
    IF book_id \in DOMAIN books THEN books[book_id].user_id ELSE NoUser

\* Mutant: the duplicate check compares the owner column with the caller.
pending_request_wrong_column(requester_id, book_id) ==
    \E r \in DOMAIN exchange_requests :
        /\ exchange_requests[r].owner_id = requester_id
        /\ exchange_requests[r].book_id = book_id
        /\ exchange_requests[r].status = "pending"

\* Mutant: the duplicate check leaves out status = 'pending'.
pending_request_any_status(requester_id, book_id) ==
    \E r \in DOMAIN exchange_requests :
        /\ exchange_requests[r].requester_id = requester_id
        /\ exchange_requests[r].book_id = book_id

\* SELECT id FROM exchange_requests
\*   WHERE requester_id = ? AND book_id = ? AND status = 'pending'
pending_request_exists(requester_id, book_id) ==
    \E r \in DOMAIN exchange_requests :
        /\ exchange_requests[r].requester_id = requester_id
        /\ exchange_requests[r].book_id = book_id
        /\ exchange_requests[r].status = "pending"

\* Mutant: the own-book check is left out.
is_own_book_unchecked(owner_id, user_id) == FALSE

\* if owner_id == request.user_id: the caller asks for a book of their own.
is_own_book(owner_id, user_id) == owner_id = user_id

\* Mutant: the INSERT binds the caller as the owner too.
new_request_owner_is_caller(requester_id, owner_id, book_id) ==
    [requester_id |-> requester_id, owner_id |-> requester_id, book_id |-> book_id,
     status |-> "pending", created_at |-> now, updated_at |-> now]

\* Mutant: the SELECT has no WHERE b.user_id != ?.
exchange_book_ids_all(user_id) ==
    {b \in DOMAIN books : books[b].user_id \in DOMAIN users}

\* SELECT ... FROM books b JOIN users u ON b.user_id = u.id
\*   WHERE b.user_id != ?
exchange_book_ids(user_id) ==
    {b \in DOMAIN books : books[b].user_id \in DOMAIN users
                          /\ books[b].user_id # user_id}

\* The row of the response for book b: the book and its owner.
exchange_book_row(b) ==
    [id |-> b, title |-> books[b].title, author |-> books[b].author,
     owner_id |-> books[b].user_id,
     owner_username |-> users[books[b].user_id].username]

get_exchange_books(hdr) ==
    LET auth == require_auth(hdr)
        added_at == [b \in DOMAIN books |-> books[b].added_at]
    IN  /\ UNCHANGED txnvars
        /\ active_tokens' = auth.active_tokens
        /\ UNCHANGED <<store, now, issued, revoked>>
        /\ IF auth.user_id = NoUser
           THEN last' = Reply401("get_exchange_books", hdr)
           ELSE \E s \in order_by_desc(exchange_book_ids(auth.user_id), added_at) :
                   last' = ReplyBody(Reply("get_exchange_books", hdr, auth.user_id,
                                           0, "", 200, ""),
                                     [i \in DOMAIN s |-> exchange_book_row(s[i])])

\* SELECT ... FROM exchange_requests er JOIN books b ON er.book_id = b.id
\*   JOIN users u ON er.owner_id = u.id WHERE er.requester_id = ?
sent_request_ids(user_id) ==
    {r \in DOMAIN exchange_requests :
        /\ exchange_requests[r].book_id \in DOMAIN books
        /\ exchange_requests[r].owner_id \in DOMAIN users
        /\ exchange_requests[r].requester_id = user_id}

\* ... JOIN users u ON er.requester_id = u.id WHERE er.owner_id = ?
received_request_ids(user_id) ==
    {r \in DOMAIN exchange_requests :
        /\ exchange_requests[r].book_id \in DOMAIN books
        /\ exchange_requests[r].requester_id \in DOMAIN users
        /\ exchange_requests[r].owner_id = user_id}

my_requests(hdr) ==
    LET auth == require_auth(hdr)
        created_at == [r \in DOMAIN exchange_requests |->
                          exchange_requests[r].created_at]
    IN  /\ UNCHANGED txnvars
        /\ active_tokens' = auth.active_tokens
        /\ UNCHANGED <<store, now, issued, revoked>>
        /\ IF auth.user_id = NoUser
           THEN last' = Reply401("my_requests", hdr)
           ELSE \E sent \in order_by_desc(sent_request_ids(auth.user_id), created_at),
                   received \in order_by_desc(received_request_ids(auth.user_id),
                                              created_at) :
                   last' = ReplyBody(Reply("my_requests", hdr, auth.user_id, 0, "",
                                           200, ""),
                                     [sent |-> sent, received |-> received])

\* The row INSERT INTO exchange_requests adds.
new_request(requester_id, owner_id, book_id) ==
    [requester_id |-> requester_id, owner_id |-> owner_id, book_id |-> book_id,
     status |-> "pending", created_at |-> now, updated_at |-> now]

request_exchange(hdr, book_id) ==
    LET auth == require_auth(hdr)
        owner_id == book_owner(book_id)
    IN  /\ UNCHANGED txnvars
        /\ active_tokens' = auth.active_tokens
        /\ UNCHANGED <<users, now, books, favorites, fav_seq, completed_exchanges,
                       issued, revoked>>
        /\ IF auth.user_id = NoUser
           THEN /\ last' = Reply401("request_exchange", hdr)
                /\ UNCHANGED exchange_requests
           ELSE IF book_id = 0
           THEN /\ last' = Reply("request_exchange", hdr, auth.user_id, book_id, "",
                                 400, "")
                /\ UNCHANGED exchange_requests
           ELSE IF owner_id = NoUser
           THEN /\ last' = Reply("request_exchange", hdr, auth.user_id, book_id, "",
                                 404, "")
                /\ UNCHANGED exchange_requests
           ELSE IF is_own_book(owner_id, auth.user_id)
           THEN /\ last' = Reply("request_exchange", hdr, auth.user_id, book_id, "",
                                 400, "")
                /\ UNCHANGED exchange_requests
           ELSE IF pending_request_exists(auth.user_id, book_id)
           THEN /\ last' = Reply("request_exchange", hdr, auth.user_id, book_id, "",
                                 409, "")
                /\ UNCHANGED exchange_requests
           ELSE /\ exchange_requests' =
                       Append(exchange_requests,
                              new_request(auth.user_id, owner_id, book_id))
                /\ last' = ReplyId(Reply("request_exchange", hdr, auth.user_id,
                                         book_id, "", 201, ""),
                                   Len(exchange_requests) + 1)

\* Mutant: the UPDATE takes every request for the book of the request.
update_status_same_book(requests, request_id, status) ==
    [r \in DOMAIN requests |->
        IF requests[r].book_id = requests[request_id].book_id
        THEN [requests[r] EXCEPT !.status = status, !.updated_at = now]
        ELSE requests[r]]

\* UPDATE exchange_requests SET status = ?, updated_at = CURRENT_TIMESTAMP
\*   WHERE id = ?
update_status(requests, request_id, status) ==
    [requests EXCEPT ![request_id].status = status, ![request_id].updated_at = now]

\* Mutant: the INSERT binds requester and owner in the wrong order.
insert_completed_swapped(completed, status, request_row) ==
    IF status = "accepted"
    THEN Append(completed, [user1_id |-> request_row.requester_id,
                            user2_id |-> request_row.owner_id,
                            book_id |-> request_row.book_id,
                            completed_at |-> now])
    ELSE completed

\* if status == 'accepted': INSERT INTO completed_exchanges
insert_completed(completed, status, request_row) ==
    IF status = "accepted"
    THEN Append(completed, [user1_id |-> request_row.owner_id,
                            user2_id |-> request_row.requester_id,
                            book_id |-> request_row.book_id,
                            completed_at |-> now])
    ELSE completed

\* Mutant: either party of the request may decide it.
may_decide_either_party(request_row, user_id) ==
    request_row.owner_id = user_id \/ request_row.requester_id = user_id

\* The check update_request makes before it writes: the caller is the owner.
may_decide(request_row, user_id) == request_row.owner_id = user_id

update_request(hdr, request_id, status) ==
    LET auth == require_auth(hdr)
        found == request_id \in DOMAIN exchange_requests
        pre == IF found THEN exchange_requests[request_id].status ELSE ""
    IN  /\ UNCHANGED txnvars
        /\ active_tokens' = auth.active_tokens
        /\ UNCHANGED <<users, now, books, favorites, fav_seq, issued, revoked>>
        /\ IF auth.user_id = NoUser
           THEN /\ last' = Reply401("update_request", hdr)
                /\ UNCHANGED <<exchange_requests, completed_exchanges>>
           ELSE IF status \notin {"accepted", "rejected"}
           THEN /\ last' = Reply("update_request", hdr, auth.user_id, request_id,
                                 status, 400, pre)
                /\ UNCHANGED <<exchange_requests, completed_exchanges>>
           ELSE IF ~found
           THEN /\ last' = Reply("update_request", hdr, auth.user_id, request_id,
                                 status, 404, pre)
                /\ UNCHANGED <<exchange_requests, completed_exchanges>>
           ELSE IF ~may_decide(exchange_requests[request_id], auth.user_id)
           THEN /\ last' = Reply("update_request", hdr, auth.user_id, request_id,
                                 status, 403, pre)
                /\ UNCHANGED <<exchange_requests, completed_exchanges>>
           ELSE /\ status = "accepted" => Len(completed_exchanges) < MaxCompleted
                /\ exchange_requests' =
                       update_status(exchange_requests, request_id, status)
                /\ completed_exchanges' =
                       insert_completed(completed_exchanges, status,
                                        exchange_requests[request_id])
                /\ last' = Reply("update_request", hdr, auth.user_id, request_id,
                                 status, 200, pre)

\* GET /health: no authentication; 'active_sessions': len(active_tokens).
health_check ==
    /\ UNCHANGED txnvars
    /\ UNCHANGED <<store, active_tokens, now, issued, revoked>>
    /\ last' = ReplyBody(Reply("health_check", "", NoUser, 0, "", 200, ""),
                         [active_sessions |-> Cardinality(DOMAIN active_tokens)])

\* ------------------------------------------------------------ the system
\* No more than n rows are in exchange_requests.
RequestCap(n) == Len(exchange_requests) <= n

\* The exchange workflow: clients send well-formed headers or none.
ExchangeHeaders == {""} \cup BearerHeaders

Next ==
    \/ Tick /\ now' <= ExchangeTicks * TickHours
    \/ \E c \in Credentials : signup(c.username, c.email, c.password)
    \/ \E hdr \in ExchangeHeaders, t \in Titles, a \in Authors : add_book(hdr, t, a)
    \/ \E hdr \in ExchangeHeaders, b \in 0..MaxBooks :
          request_exchange(hdr, b) /\ RequestCap(MaxRequests)'
    \/ \E hdr \in ExchangeHeaders, r \in 1..MaxRequests, d \in Decisions :
          update_request(hdr, r, d)

Spec == Init /\ [][Next]_vars

\* The session registry: every handler, every kind of header, the clock
\* running past the expiry of the tokens; one user, who signs up and logs in
\* again, and a small store.
SessionCredentials == {c \in Credentials : c.username = "alice"}
SessionCap == Len(books) + Len(favorites) + Len(exchange_requests) <= SessionRows
\* No more than n tokens have been handed out.
TokenCap(n) == Cardinality(DOMAIN issued) <= n

SessionNext ==
    \/ Tick /\ now' <= MaxTicks * TickHours
    \/ \E c \in SessionCredentials :
          signup(c.username, c.email, c.password) /\ TokenCap(MaxTokens)'
    \/ \E c \in SessionCredentials :
          login(c.username, c.password) /\ TokenCap(MaxTokens)'
    \/ \E hdr \in Headers : logout(hdr)
    \/ \E hdr \in Headers : get_profile(hdr)
    \/ \E hdr \in Headers : my_favorites(hdr)
    \/ \E hdr \in Headers : my_books(hdr)
    \/ \E hdr \in Headers : get_exchange_books(hdr)
    \/ \E hdr \in Headers : my_requests(hdr)
    \/ \E hdr \in Headers, t \in Titles, a \in Authors :
          add_favorite(hdr, t, a) /\ SessionCap'
    \/ \E hdr \in Headers, f \in {1} : remove_favorite(hdr, f)
    \/ \E hdr \in Headers, t \in Titles, a \in Authors :
          add_book(hdr, t, a) /\ SessionCap'
    \/ \E hdr \in Headers, b \in {1} :
          request_exchange(hdr, b) /\ SessionCap'
    \/ \E hdr \in Headers, r \in {1}, d \in {"accepted"} :
          update_request(hdr, r, d)

SpecSession == Init /\ [][SessionNext]_vars

\* Accounts: signup and login with clashing, padded, incomplete and wrong
\* request bodies, logout, and the clock.
SignupInputs ==
    Credentials \cup
    { [username |-> " alice ", email |-> "alice2@x.org", password |-> "secret1"],
      [username |-> "bob", email |-> " alice@x.org", password |-> "hunter22"],
      [username |-> "carol", email |-> "carol@x.org", password |-> "12345"],
      [username |-> "  ", email |-> "dave@x.org", password |-> "secret1"],
      [username |-> "dave", email |-> "dave@x.org", password |-> ""] }

LoginInputs ==
    {[username |-> c.username, password |-> c.password] : c \in SignupInputs}
    \cup { [username |-> "alice", password |-> "hunter22"],
           [username |-> "erin", password |-> "secret1"] }

AuthNext ==
    \/ Tick /\ now' <= AuthTicks * TickHours
    \/ \E c \in SignupInputs :
          signup(c.username, c.email, c.password) /\ TokenCap(AuthTokens)'
    \/ \E c \in LoginInputs : login(c.username, c.password) /\ TokenCap(AuthTokens)'
    \/ \E t \in DOMAIN issued : logout("Bearer " \o t)

SpecAuth == Init /\ [][AuthNext]_vars

\* ------------------------------------- update_request, statement by statement
\* sqlite3 connections: a SELECT reads the committed tables; the first write
\* of a connection opens a transaction and takes the store's write lock; its
\* writes stay in the connection until conn.commit() and are dropped when the
\* connection goes away uncommitted.

\* The committed exchange_requests after the UPDATE statement of a
\* connection that has not reached conn.commit(): the UPDATE is not visible.
\* Mutant: the connection runs in autocommit mode.
visible_autocommit(committed, written) == written

visible_after_update(committed, written) == committed

\* A store in which update_request can run: alice owns book 1, bob has asked
\* for it, both hold a live token.
TxnInit ==
    /\ users = << [username |-> "alice", email |-> "alice@x.org",
                   password_hash |-> hash_password("secret1")],
                  [username |-> "bob", email |-> "bob@x.org",
                   password_hash |-> hash_password("hunter22")] >>
    /\ active_tokens = [t \in {"tokA", "tokB"} |->
                          [user_id |-> IF t = "tokA" THEN 1 ELSE 2,
                           expires |-> TokenTTLHours]]
    /\ issued = [t \in {"tokA", "tokB"} |-> TokenTTLHours]
    /\ revoked = {}
    /\ now = 0
    /\ books = << [user_id |-> 1, title |-> "Dune", author |-> "Herbert",
                   added_at |-> 0] >>
    /\ favorites = <<>>
    /\ fav_seq = 0
    /\ exchange_requests = << new_request(2, 1, 1) >>
    /\ completed_exchanges = <<>>
    /\ last = ReplyId(Reply("request_exchange", "Bearer tokB", 2, 1, "", 201, ""), 1)
    /\ TxnIdle

TxnFrame == UNCHANGED <<users, now, books, favorites, fav_seq, last, issued, revoked>>

\* The handler is entered: require_auth, the status check, get_db().
txn_begin(p, hdr, request_id, status) ==
    LET auth == require_auth(hdr)
    IN  /\ pc[p] \in {"idle", "done"}
        /\ TxnFrame
        /\ active_tokens' = auth.active_tokens
        /\ UNCHANGED <<exchange_requests, completed_exchanges, tx, wlock>>
        /\ IF auth.user_id = NoUser
           THEN /\ pc' = [pc EXCEPT ![p] = "done"]
                /\ call' = [call EXCEPT ![p] = [NoCall EXCEPT !.code = 401]]
           ELSE IF status \notin {"accepted", "rejected"}
           THEN /\ pc' = [pc EXCEPT ![p] = "done"]
                /\ call' = [call EXCEPT ![p] =
                              [NoCall EXCEPT !.user_id = auth.user_id,
                                             !.request_id = request_id,
                                             !.status = status, !.code = 400]]
           ELSE /\ pc' = [pc EXCEPT ![p] = "select"]
                /\ call' = [call EXCEPT ![p] =
                              [NoCall EXCEPT !.user_id = auth.user_id,
                                             !.request_id = request_id,
                                             !.status = status]]

\* SELECT owner_id, requester_id, book_id FROM exchange_requests WHERE id = ?
\* and the two checks on the row.
txn_select(p) ==
    LET c == call[p]
        found == c.request_id \in DOMAIN exchange_requests
    IN  /\ pc[p] = "select"
        /\ TxnFrame
        /\ UNCHANGED <<active_tokens, exchange_requests, completed_exchanges, tx,
                       wlock>>
        /\ IF ~found
           THEN /\ pc' = [pc EXCEPT ![p] = "done"]
                /\ call' = [call EXCEPT ![p].code = 404]
           ELSE IF ~may_decide(exchange_requests[c.request_id], c.user_id)
           THEN /\ pc' = [pc EXCEPT ![p] = "done"]
                /\ call' = [call EXCEPT ![p].code = 403]
           ELSE /\ pc' = [pc EXCEPT ![p] = "update"]
                /\ call' = [call EXCEPT ![p].row = exchange_requests[c.request_id]]

\* UPDATE exchange_requests ...: opens the transaction once the write lock is
\* free.
txn_update(p) ==
    LET c == call[p]
        written == update_status(exchange_requests, c.request_id, c.status)
    IN  /\ pc[p] = "update"
        /\ wlock = NoWriter
        /\ TxnFrame
        /\ wlock' = p
        /\ tx' = [tx EXCEPT ![p] = [open |-> TRUE, exchange_requests |-> written,
                                    completed_exchanges |-> completed_exchanges]]
        /\ exchange_requests' = visible_after_update(exchange_requests, written)
        /\ pc' = [pc EXCEPT ![p] = IF c.status = "accepted" THEN "insert"
                                   ELSE "commit"]
        /\ UNCHANGED <<active_tokens, completed_exchanges, call>>

\* INSERT INTO completed_exchanges ..., in the same transaction.
txn_insert(p) ==
    LET c == call[p]
    IN  /\ pc[p] = "insert"
        /\ Len(tx[p].completed_exchanges) < MaxCompleted
        /\ TxnFrame
        /\ tx' = [tx EXCEPT ![p].completed_exchanges =
                     insert_completed(tx[p].completed_exchanges, c.status, c.row)]
        /\ pc' = [pc EXCEPT ![p] = "commit"]
        /\ UNCHANGED <<active_tokens, exchange_requests, completed_exchanges, call,
                       wlock>>

\* conn.commit(); conn.close(); return 200
txn_commit(p) ==
    /\ pc[p] = "commit"
    /\ TxnFrame
    /\ exchange_requests' = tx[p].exchange_requests
    /\ completed_exchanges' = tx[p].completed_exchanges
    /\ tx' = [tx EXCEPT ![p] = NoTx]
    /\ wlock' = NoWriter
    /\ pc' = [pc EXCEPT ![p] = "done"]
    /\ call' = [call EXCEPT ![p].code = 200]
    /\ UNCHANGED active_tokens

\* A statement raises (the write lock is not granted in time, the disk is
\* full, ...): except Exception returns 500; the connection is dropped with
\* its transaction uncommitted.
txn_fail(p) ==
    /\ pc[p] \in {"select", "update", "insert", "commit"}
    /\ TxnFrame
    /\ tx' = [tx EXCEPT ![p] = NoTx]
    /\ wlock' = IF wlock = p THEN NoWriter ELSE wlock
    /\ pc' = [pc EXCEPT ![p] = "done"]
    /\ call' = [call EXCEPT ![p].code = 500, ![p].failed_at = pc[p]]
    /\ UNCHANGED <<active_tokens, exchange_requests, completed_exchanges>>

\* The calls name the request of TxnInit; a request id that is not in the
\* table is answered 404 before any write, as in update_request above.
TxnNext ==
    \/ \E p \in Procs, hdr \in BearerHeaders, r \in DOMAIN exchange_requests,
          d \in {"accepted", "rejected"} : txn_begin(p, hdr, r, d)
    \/ \E p \in Procs : txn_select(p)
    \/ \E p \in Procs : txn_update(p)
    \/ \E p \in Procs : txn_insert(p)
    \/ \E p \in Procs : txn_commit(p)
    \/ \E p \in Procs : txn_fail(p)

SpecTxn == TxnInit /\ [][TxnNext]_vars

\* The library: two users add books and favorites, with titles and authors
\* that repeat, differ in one part only, are padded, or are missing.
LibraryBodies ==
    { [title |-> "Dune", author |-> "Herbert"],
      [title |-> " Dune ", author |-> "Herbert "],
      [title |-> "Dune", author |-> "Austen"],
      [title |-> "  ", author |-> "Austen"] }

LibraryNext ==
    \/ \E c \in Credentials : signup(c.username, c.email, c.password)
    \/ \E hdr \in ExchangeHeaders, b \in LibraryBodies :
          add_book(hdr, b.title, b.author)
    \/ \E hdr \in ExchangeHeaders, b \in LibraryBodies :
          add_favorite(hdr, b.title, b.author)
    \/ \E hdr \in ExchangeHeaders, f \in 1..MaxFavorites : remove_favorite(hdr, f)
    \/ \E hdr \in ExchangeHeaders : my_books(hdr)
    \/ \E hdr \in ExchangeHeaders : my_favorites(hdr)

SpecLibrary == Init /\ [][LibraryNext]_vars

\* The listings: three users with live tokens, alice with a book; books are
\* added, asked for and decided on while the clock runs, and the users read
\* their requests and the exchange listing.
ListingInit ==
    /\ users = << [username |-> "alice", email |-> "alice@x.org",
                   password_hash |-> hash_password("secret1")],
                  [username |-> "bob", email |-> "bob@x.org",
                   password_hash |-> hash_password("hunter22")],
                  [username |-> "carol", email |-> "carol@x.org",
                   password_hash |-> hash_password("123456")] >>
    /\ active_tokens = [t \in {"tokA", "tokB", "tokC"} |->
                          [user_id |-> CHOOSE i \in 1..3 : TokenNames[i] = t,
                           expires |-> TokenTTLHours]]
    /\ issued = [t \in {"tokA", "tokB", "tokC"} |-> TokenTTLHours]
    /\ revoked = {}
    /\ now = 0
    /\ books = << [user_id |-> 1, title |-> "Dune", author |-> "Herbert",
                   added_at |-> 0] >>
    /\ favorites = <<>>
    /\ fav_seq = 0
    /\ exchange_requests = <<>>
    /\ completed_exchanges = <<>>
    /\ last = Reply("add_book", "Bearer tokA", 1, 1, "Dune", 201, "")
    /\ TxnIdle

ListingHeaders == {"Bearer " \o t : t \in {"tokA", "tokB", "tokC"}}

ListingNext ==
    \/ Tick /\ now' <= ListingTicks * TickHours
    \/ \E hdr \in ListingHeaders, t \in Titles, a \in Authors : add_book(hdr, t, a)
    \/ \E hdr \in ListingHeaders, b \in 1..MaxBooks :
          request_exchange(hdr, b) /\ RequestCap(ListingRequests)'
    \/ \E hdr \in ListingHeaders, r \in 1..ListingRequests,
          d \in {"accepted", "rejected"} : update_request(hdr, r, d)
    \/ \E hdr \in ListingHeaders : my_requests(hdr)
    \/ \E hdr \in ListingHeaders : get_exchange_books(hdr)

SpecListing == ListingInit /\ [][ListingNext]_vars

\* The catalog: users sign up and search the catalog while the clock runs.
Queries ==
    {"harry", "HARRY", " Harry ", "zzz_no_match", "", " ", "the", "Lee",
     "1984", "j.", "e", "of the"}

SearchNext ==
    \/ Tick /\ now' <= AuthTicks * TickHours
    \/ \E c \in Credentials : signup(c.username, c.email, c.password)
    \/ \E q \in Queries : search_books(q)

SpecSearch == Init /\ [][SearchNext]_vars

\* A client as in test_api.py: it signs up and calls addBook, myBooks and
\* exchange, with the token of the signup response in the Authorization
\* header or with no Authorization header at all.
ClientNext ==
    \/ \E c \in Credentials : signup(c.username, c.email, c.password)
    \/ \E hdr \in ExchangeHeaders, b \in LibraryBodies :
          add_book(hdr, b.title, b.author)
    \/ \E hdr \in ExchangeHeaders : my_books(hdr)
    \/ \E hdr \in ExchangeHeaders : get_exchange_books(hdr)

SpecClient == Init /\ [][ClientNext]_vars

\* The health check: a user signs up, logs in again, calls a handler behind
\* require_auth and logs out while the clock runs past the expiry of the
\* tokens, and the health check is read in between.
HealthNext ==
    \/ Tick /\ now' <= MaxTicks * TickHours
    \/ \E c \in SessionCredentials :
          signup(c.username, c.email, c.password) /\ TokenCap(MaxTokens)'
    \/ \E c \in SessionCredentials :
          login(c.username, c.password) /\ TokenCap(MaxTokens)'
    \/ \E hdr \in BearerHeaders : logout(hdr)
    \/ \E hdr \in BearerHeaders : get_profile(hdr)
    \/ health_check

SpecHealth == Init /\ [][HealthNext]_vars

\* ---------------------------------------------- signup, statement by statement
\* Several calls of signup interleaved.  The UNIQUE constraints of users are
\* checked by the INSERT itself, which runs under the store's write lock.
\* conn is the connection of the call: "none" before get_db(), "open" from
\* get_db() on, "closed" once the handler has called conn.close().
NoSignup == [username |-> "", email |-> "", password |-> "", user_id |-> NoUser,
             code |-> 0, failed_at |-> "", conn |-> "none"]

SignupInit ==
    /\ users = <<>>
    /\ active_tokens = EmptyMap
    /\ now = 0
    /\ books = <<>>
    /\ favorites = <<>>
    /\ fav_seq = 0
    /\ exchange_requests = <<>>
    /\ completed_exchanges = <<>>
    /\ last = Reply("init", "", NoUser, 0, "", 0, "")
    /\ issued = EmptyMap
    /\ revoked = {}
    /\ pc = [p \in Procs |-> "idle"]
    /\ call = [p \in Procs |-> NoSignup]
    /\ tx = [p \in Procs |-> NoTx]
    /\ wlock = NoWriter

SignupFrame ==
    UNCHANGED <<now, books, favorites, fav_seq, exchange_requests,
                completed_exchanges, last, revoked>>

\* Mutant: the table has no UNIQUE constraint on email.
integrity_error_username_only(username, email) == UsernameTaken(username)

\* sqlite3.IntegrityError: username TEXT UNIQUE, email TEXT UNIQUE.
integrity_error(username, email) == UsernameTaken(username) \/ EmailTaken(email)

\* The body is read and validated; past validation, conn = get_db().
sg_begin(p, username_in, email_in, password) ==
    LET username == strip(username_in)
        email == strip(email_in)
        body == [NoSignup EXCEPT !.username = username, !.email = email,
                                 !.password = password]
    IN  /\ pc[p] \in {"idle", "done"}
        /\ SignupFrame
        /\ UNCHANGED <<users, active_tokens, issued, tx, wlock>>
        /\ IF username = "" \/ email = "" \/ password = ""
           THEN /\ pc' = [pc EXCEPT ![p] = "done"]
                /\ call' = [call EXCEPT ![p] = [body EXCEPT !.code = 400]]
           ELSE IF Len(password) < 6
           THEN /\ pc' = [pc EXCEPT ![p] = "done"]
                /\ call' = [call EXCEPT ![p] = [body EXCEPT !.code = 400]]
           ELSE /\ pc' = [pc EXCEPT ![p] = "insert"]
                /\ call' = [call EXCEPT ![p] = [body EXCEPT !.conn = "open"]]

\* INSERT INTO users ...: waits for the write lock; raises IntegrityError
\* on a duplicate, else opens the transaction.  except sqlite3.IntegrityError
\* returns 409 and does not call conn.close().
sg_insert(p) ==
    LET c == call[p]
    IN  /\ pc[p] = "insert"
        /\ wlock = NoWriter
        /\ SignupFrame
        /\ UNCHANGED <<users, active_tokens, issued>>
        /\ IF integrity_error(c.username, c.email)
           THEN /\ pc' = [pc EXCEPT ![p] = "done"]
                /\ call' = [call EXCEPT ![p].code = 409]
                /\ UNCHANGED <<tx, wlock>>
           ELSE /\ pc' = [pc EXCEPT ![p] = "commit"]
                /\ tx' = [tx EXCEPT ![p] =
                             [open |-> TRUE,
                              users |-> Append(users,
                                 [username |-> c.username, email |-> c.email,
                                  password_hash |-> hash_password(c.password)])]]
                /\ wlock' = p
                /\ UNCHANGED call

\* conn.commit(); user_id = c.lastrowid; conn.close()
sg_commit(p) ==
    /\ pc[p] = "commit"
    /\ SignupFrame
    /\ users' = tx[p].users
    /\ tx' = [tx EXCEPT ![p] = NoTx]
    /\ wlock' = NoWriter
    /\ pc' = [pc EXCEPT ![p] = "token"]
    /\ call' = [call EXCEPT ![p].user_id = Len(tx[p].users), ![p].conn = "closed"]
    /\ UNCHANGED <<active_tokens, issued>>

\* token = generate_token(); active_tokens[token] = ...; return 201
sg_token(p) ==
    /\ pc[p] = "token"
    /\ CanGenerate
    /\ SignupFrame
    /\ issue_token(generate_token, call[p].user_id)
    /\ pc' = [pc EXCEPT ![p] = "done"]
    /\ call' = [call EXCEPT ![p].code = 201]
    /\ UNCHANGED <<users, tx, wlock>>

\* except Exception (the write lock is not granted in time, the disk is
\* full, ...): 500, without conn.close(); the connection goes away with its
\* transaction when the interpreter reclaims it.
sg_fail(p) ==
    /\ pc[p] \in {"insert", "commit"}
    /\ SignupFrame
    /\ tx' = [tx EXCEPT ![p] = NoTx]
    /\ wlock' = IF wlock = p THEN NoWriter ELSE wlock
    /\ pc' = [pc EXCEPT ![p] = "done"]
    /\ call' = [call EXCEPT ![p].code = 500, ![p].failed_at = pc[p]]
    /\ UNCHANGED <<users, active_tokens, issued>>

SignupNext ==
    \/ \E p \in Procs, c \in SignupInputs :
          sg_begin(p, c.username, c.email, c.password)
    \/ \E p \in Procs : sg_insert(p)
    \/ \E p \in Procs : sg_commit(p)
    \/ \E p \in Procs : sg_token(p)
    \/ \E p \in Procs : sg_fail(p)

SpecSignup == SignupInit /\ [][SignupNext]_vars

\* --------------------------------- the session registry, statement by statement
\* Several request threads run the wrapper of require_auth with
\* get_user_from_token, or logout, on the one dict active_tokens; a thread
\* may be switched out between any two statements.
NoLookup == [op |-> "", token |-> "", user_data |-> [user_id |-> NoUser, expires |-> 0],
             user_id |-> NoUser, code |-> 0]

\* alice signed up at hour 0 and logged in again two token lifetimes later:
\* her first token is past its expiry and still in the registry.
RegistryInit ==
    /\ users = << [username |-> "alice", email |-> "alice@x.org",
                   password_hash |-> hash_password("secret1")] >>
    /\ now = 2 * TickHours
    /\ active_tokens = [t \in {"tokA", "tokB"} |->
                          [user_id |-> 1,
                           expires |-> IF t = "tokA" THEN TokenTTLHours
                                       ELSE 2 * TickHours + TokenTTLHours]]
    /\ issued = [t \in {"tokA", "tokB"} |-> active_tokens[t].expires]
    /\ revoked = {}
    /\ books = <<>>
    /\ favorites = <<>>
    /\ fav_seq = 0
    /\ exchange_requests = <<>>
    /\ completed_exchanges = <<>>
    /\ last = Reply("login", "", 1, 0, "tokB", 200, "")
    /\ pc = [p \in Procs |-> "idle"]
    /\ call = [p \in Procs |-> NoLookup]
    /\ tx = [p \in Procs |-> NoTx]
    /\ wlock = NoWriter

RegistryFrame == UNCHANGED <<store, now, last, issued, tx, wlock>>

\* token = request.headers.get('Authorization'), the prefix cut off: the
\* wrapper of require_auth for any handler behind it, or logout.
rg_begin(p, op, hdr) ==
    LET entered == [NoLookup EXCEPT !.op = op]
    IN  /\ pc[p] \in {"idle", "done"}
        /\ RegistryFrame
        /\ UNCHANGED <<active_tokens, revoked>>
        /\ IF op = "logout"
           THEN IF hdr # "" /\ startswith(hdr, "Bearer ")
                THEN /\ pc' = [pc EXCEPT ![p] = "lo_test"]
                     /\ call' = [call EXCEPT ![p] =
                                   [entered EXCEPT !.token = SubSeq(hdr, 8, Len(hdr))]]
                ELSE /\ pc' = [pc EXCEPT ![p] = "done"]
                     /\ call' = [call EXCEPT ![p] =
                                   [entered EXCEPT !.token = hdr, !.code = 200]]
           ELSE IF bearer_token(hdr) = ""
                THEN /\ pc' = [pc EXCEPT ![p] = "done"]
                     /\ call' = [call EXCEPT ![p] = [entered EXCEPT !.code = 401]]
                ELSE /\ pc' = [pc EXCEPT ![p] = "get"]
                     /\ call' = [call EXCEPT ![p] =
                                   [entered EXCEPT !.token = bearer_token(hdr)]]

\* user_data = active_tokens.get(token); if not user_data: return None
rg_get(p) ==
    LET c == call[p]
    IN  /\ pc[p] = "get"
        /\ RegistryFrame
        /\ UNCHANGED <<active_tokens, revoked>>
        /\ IF c.token \notin DOMAIN active_tokens
           THEN /\ pc' = [pc EXCEPT ![p] = "done"]
                /\ call' = [call EXCEPT ![p].code = 401]
           ELSE /\ pc' = [pc EXCEPT ![p] = "test"]
                /\ call' = [call EXCEPT ![p].user_data = active_tokens[c.token]]

\* if datetime.now() > user_data['expires']: ...  return user_data['user_id']
rg_test(p) ==
    LET c == call[p]
    IN  /\ pc[p] = "test"
        /\ RegistryFrame
        /\ UNCHANGED <<active_tokens, revoked>>
        /\ IF now > c.user_data.expires
           THEN /\ pc' = [pc EXCEPT ![p] = "del"]
                /\ UNCHANGED call
           ELSE /\ pc' = [pc EXCEPT ![p] = "done"]
                /\ call' = [call EXCEPT ![p].user_id = c.user_data.user_id,
                                         ![p].code = 200]

\* del active_tokens[token]; return None.  The statement raises KeyError when
\* the key is gone; nothing catches it in the wrapper: 500.
rg_del(p) ==
    LET c == call[p]
    IN  /\ pc[p] = "del"
        /\ RegistryFrame
        /\ UNCHANGED revoked
        /\ pc' = [pc EXCEPT ![p] = "done"]
        /\ IF c.token \in DOMAIN active_tokens
           THEN /\ active_tokens' = Drop(active_tokens, c.token)
                /\ call' = [call EXCEPT ![p].code = 401]
           ELSE /\ UNCHANGED active_tokens
                /\ call' = [call EXCEPT ![p].code = 500]

\* logout: if token in active_tokens:
lo_test(p) ==
    LET c == call[p]
    IN  /\ pc[p] = "lo_test"
        /\ RegistryFrame
        /\ UNCHANGED <<active_tokens, revoked>>
        /\ IF c.token \in DOMAIN active_tokens
           THEN /\ pc' = [pc EXCEPT ![p] = "lo_del"]
                /\ UNCHANGED call
           ELSE /\ pc' = [pc EXCEPT ![p] = "done"]
                /\ call' = [call EXCEPT ![p].code = 200]

\* logout: del active_tokens[token]; return 200.  KeyError when the key is
\* gone: 500.
lo_del(p) ==
    LET c == call[p]
    IN  /\ pc[p] = "lo_del"
        /\ RegistryFrame
        /\ pc' = [pc EXCEPT ![p] = "done"]
        /\ IF c.token \in DOMAIN active_tokens
           THEN /\ active_tokens' = Drop(active_tokens, c.token)
                /\ revoked' = revoked \cup {c.token}
                /\ call' = [call EXCEPT ![p].code = 200]
           ELSE /\ UNCHANGED <<active_tokens, revoked>>
                /\ call' = [call EXCEPT ![p].code = 500]

RegistryNext ==
    \/ \E p \in Procs, op \in {"get_profile", "logout"}, hdr \in ExchangeHeaders :
          rg_begin(p, op, hdr)
    \/ \E p \in Procs : rg_get(p)
    \/ \E p \in Procs : rg_test(p)
    \/ \E p \in Procs : rg_del(p)
    \/ \E p \in Procs : lo_test(p)
    \/ \E p \in Procs : lo_del(p)

SpecRegistry == RegistryInit /\ [][RegistryNext]_vars

\* ------------------- request_exchange and add_book, statement by statement
\* Several calls interleaved, each on a connection of its own: the SELECTs
\* read the committed tables, and the INSERT with its conn.commit() is one
\* write under the store's write lock.  Neither table has a UNIQUE
\* constraint (init_db).
NoRequest == [op |-> "", user_id |-> NoUser, book_id |-> 0, owner_id |-> NoUser,
              title |-> "", author |-> "", code |-> 0, id |-> 0]

\* alice and bob signed up and alice added a book.
RaceInit ==
    /\ users = << [username |-> "alice", email |-> "alice@x.org",
                   password_hash |-> hash_password("secret1")],
                  [username |-> "bob", email |-> "bob@x.org",
                   password_hash |-> hash_password("hunter22")] >>
    /\ active_tokens = [t \in {"tokA", "tokB"} |->
                          [user_id |-> IF t = "tokA" THEN 1 ELSE 2,
                           expires |-> TokenTTLHours]]
    /\ issued = [t \in {"tokA", "tokB"} |-> TokenTTLHours]
    /\ revoked = {}
    /\ now = 0
    /\ books = << [user_id |-> 1, title |-> "Dune", author |-> "Herbert",
                   added_at |-> 0] >>
    /\ favorites = <<>>
    /\ fav_seq = 0
    /\ exchange_requests = <<>>
    /\ completed_exchanges = <<>>
    /\ last = Reply("add_book", "Bearer tokA", 1, 1, "Dune", 201, "")
    /\ pc = [p \in Procs |-> "idle"]
    /\ call = [p \in Procs |-> NoRequest]
    /\ tx = [p \in Procs |-> NoTx]
    /\ wlock = NoWriter

RaceFrame ==
    UNCHANGED <<users, now, favorites, fav_seq, completed_exchanges, last, issued,
                revoked, tx, wlock>>

\* request_exchange is entered: require_auth, the body, get_db().
rq_begin(p, hdr, book_id) ==
    LET auth == require_auth(hdr)
        entered == [NoRequest EXCEPT !.op = "request_exchange",
                                     !.user_id = auth.user_id, !.book_id = book_id]
    IN  /\ pc[p] \in {"idle", "done"}
        /\ RaceFrame
        /\ active_tokens' = auth.active_tokens
        /\ UNCHANGED <<books, exchange_requests>>
        /\ IF auth.user_id = NoUser
           THEN /\ pc' = [pc EXCEPT ![p] = "done"]
                /\ call' = [call EXCEPT ![p] = [entered EXCEPT !.code = 401]]
           ELSE IF book_id = 0
           THEN /\ pc' = [pc EXCEPT ![p] = "done"]
                /\ call' = [call EXCEPT ![p] = [entered EXCEPT !.code = 400]]
           ELSE /\ pc' = [pc EXCEPT ![p] = "rq_book"]
                /\ call' = [call EXCEPT ![p] = entered]

\* SELECT user_id FROM books WHERE id = ? and the two checks on the row.
rq_book(p) ==
    LET c == call[p]
        owner_id == book_owner(c.book_id)
    IN  /\ pc[p] = "rq_book"
        /\ RaceFrame
        /\ UNCHANGED <<active_tokens, books, exchange_requests>>
        /\ IF owner_id = NoUser
           THEN /\ pc' = [pc EXCEPT ![p] = "done"]
                /\ call' = [call EXCEPT ![p].code = 404]
           ELSE IF is_own_book(owner_id, c.user_id)
           THEN /\ pc' = [pc EXCEPT ![p] = "done"]
                /\ call' = [call EXCEPT ![p].code = 400]
           ELSE /\ pc' = [pc EXCEPT ![p] = "rq_check"]
                /\ call' = [call EXCEPT ![p].owner_id = owner_id]

\* SELECT id FROM exchange_requests WHERE ... status = 'pending'
rq_check(p) ==
    LET c == call[p]
    IN  /\ pc[p] = "rq_check"
        /\ RaceFrame
        /\ UNCHANGED <<active_tokens, books, exchange_requests>>
        /\ IF pending_request_exists(c.user_id, c.book_id)
           THEN /\ pc' = [pc EXCEPT ![p] = "done"]
                /\ call' = [call EXCEPT ![p].code = 409]
           ELSE /\ pc' = [pc EXCEPT ![p] = "rq_insert"]
                /\ UNCHANGED call

\* INSERT INTO exchange_requests ...; conn.commit(); return 201
rq_insert(p) ==
    LET c == call[p]
    IN  /\ pc[p] = "rq_insert"
        /\ RaceFrame
        /\ UNCHANGED <<active_tokens, books>>
        /\ exchange_requests' =
              Append(exchange_requests, new_request(c.user_id, c.owner_id, c.book_id))
        /\ pc' = [pc EXCEPT ![p] = "done"]
        /\ call' = [call EXCEPT ![p].code = 201,
                                ![p].id = Len(exchange_requests) + 1]

\* add_book is entered: require_auth, the body, get_db().
ab_begin(p, hdr, title_in, author_in) ==
    LET auth == require_auth(hdr)
        title == strip(title_in)
        author == strip(author_in)
        entered == [NoRequest EXCEPT !.op = "add_book", !.user_id = auth.user_id,
                                     !.title = title, !.author = author]
    IN  /\ pc[p] \in {"idle", "done"}
        /\ RaceFrame
        /\ active_tokens' = auth.active_tokens
        /\ UNCHANGED <<books, exchange_requests>>
        /\ IF auth.user_id = NoUser
           THEN /\ pc' = [pc EXCEPT ![p] = "done"]
                /\ call' = [call EXCEPT ![p] = [entered EXCEPT !.code = 401]]
           ELSE IF title = "" \/ author = ""
           THEN /\ pc' = [pc EXCEPT ![p] = "done"]
                /\ call' = [call EXCEPT ![p] = [entered EXCEPT !.code = 400]]
           ELSE /\ pc' = [pc EXCEPT ![p] = "ab_check"]
                /\ call' = [call EXCEPT ![p] = entered]

\* SELECT id FROM books WHERE user_id = ? AND title = ? AND author = ?
ab_check(p) ==
    LET c == call[p]
    IN  /\ pc[p] = "ab_check"
        /\ RaceFrame
        /\ UNCHANGED <<active_tokens, books, exchange_requests>>
        /\ IF book_exists(c.user_id, c.title, c.author)
           THEN /\ pc' = [pc EXCEPT ![p] = "done"]
                /\ call' = [call EXCEPT ![p].code = 409]
           ELSE /\ pc' = [pc EXCEPT ![p] = "ab_insert"]
                /\ UNCHANGED call

\* INSERT INTO books ...; conn.commit(); return 201
ab_insert(p) ==
    LET c == call[p]
    IN  /\ pc[p] = "ab_insert"
        /\ RaceFrame
        /\ UNCHANGED <<active_tokens, exchange_requests>>
        /\ books' = Append(books, [user_id |-> c.user_id, title |-> c.title,
                                   author |-> c.author, added_at |-> now])
        /\ pc' = [pc EXCEPT ![p] = "done"]
        /\ call' = [call EXCEPT ![p].code = 201, ![p].id = Len(books) + 1]

RaceNext ==
    \/ \E p \in Procs, hdr \in ExchangeHeaders, b \in 0..MaxBooks :
          rq_begin(p, hdr, b)
    \/ \E p \in Procs : rq_book(p)
    \/ \E p \in Procs : rq_check(p)
    \/ \E p \in Procs : rq_insert(p) /\ RequestCap(MaxRequests)'
    \/ \E p \in Procs, hdr \in ExchangeHeaders, b \in LibraryBodies :
          ab_begin(p, hdr, b.title, b.author)
    \/ \E p \in Procs : ab_check(p)
    \/ \E p \in Procs : ab_insert(p) /\ Len(books') <= RaceBooks

SpecRace == RaceInit /\ [][RaceNext]_vars

\* ------------------------------------------------------------------ claims
AuthOps ==
    {"get_profile", "add_favorite", "my_favorites", "remove_favorite", "add_book",
     "my_books", "get_exchange_books", "request_exchange", "my_requests",
     "update_request"}

Decided(row) == row.status \in {"accepted", "rejected"}

\* C1: a request is created pending, and once its status is accepted or
\* rejected no later decide call succeeds on it or changes its status (no
\* accepted -> rejected, no rejected -> accepted, no repeated accept).
C1_DecidedOnce ==
    [][ /\ \A r \in DOMAIN exchange_requests' \ DOMAIN exchange_requests :
              exchange_requests'[r].status = "pending"
        /\ \A r \in DOMAIN exchange_requests :
              Decided(exchange_requests[r]) =>
                 /\ exchange_requests'[r].status = exchange_requests[r].status
                 /\ ~(last'.op = "update_request" /\ last'.arg = r
                        /\ last'.code = 200) ]_vars

CompletedFor(owner, requester, book) ==
    {c \in DOMAIN completed_exchanges :
        /\ completed_exchanges[c].user1_id = owner
        /\ completed_exchanges[c].user2_id = requester
        /\ completed_exchanges[c].book_id = book}

AcceptedFor(owner, requester, book) ==
    {r \in DOMAIN exchange_requests :
        /\ exchange_requests[r].owner_id = owner
        /\ exchange_requests[r].requester_id = requester
        /\ exchange_requests[r].book_id = book
        /\ exchange_requests[r].status = "accepted"}

\* C2: completed-exchange rows and accepted requests correspond one to one:
\* for every (owner, requester, book) there are as many CompletedExchange
\* rows (user1, user2, book) as requests whose status is accepted.
C2_CompletedMatchAccepted ==
    \A owner \in DOMAIN users, requester \in DOMAIN users, book \in DOMAIN books :
        Cardinality(CompletedFor(owner, requester, book))
            = Cardinality(AcceptedFor(owner, requester, book))

\* C3: a successful decide by the owner on a pending request sets the status
\* to the decision; accepted appends exactly one CompletedExchange row
\* (user1 = owner, user2 = requester, book = the request's book); rejected
\* leaves the CompletedExchange rows as they are.
C3_DecideEffect ==
    [][ ( /\ last'.op = "update_request"
          /\ last'.code = 200
          /\ last'.arg \in DOMAIN exchange_requests
          /\ exchange_requests[last'.arg].status = "pending" )
        => LET row == exchange_requests[last'.arg]
               n == Len(completed_exchanges)
           IN  /\ last'.user_id = row.owner_id
               /\ exchange_requests'[last'.arg].status = last'.val
               /\ last'.val = "accepted" =>
                     /\ Len(completed_exchanges') = n + 1
                     /\ SubSeq(completed_exchanges', 1, n) = completed_exchanges
                     /\ completed_exchanges'[n + 1].user1_id = row.owner_id
                     /\ completed_exchanges'[n + 1].user2_id = row.requester_id
                     /\ completed_exchanges'[n + 1].book_id = row.book_id
               /\ last'.val = "rejected" =>
                     completed_exchanges' = completed_exchanges ]_vars

\* The owner has just accepted a pending request.
C3_Witness ==
    /\ last.op = "update_request"
    /\ last.code = 200
    /\ last.pre = "pending"
    /\ last.val = "accepted"
    /\ exchange_requests[last.arg].status = "accepted"
    /\ Len(completed_exchanges) = 1

PendingFor(requester, book) ==
    {r \in DOMAIN exchange_requests :
        /\ exchange_requests[r].requester_id = requester
        /\ exchange_requests[r].book_id = book
        /\ exchange_requests[r].status = "pending"}

\* C4: in every state reached by atomically executed create and decide
\* calls there is at most one pending request per (requester, book) pair.
C4_OnePendingPerPair ==
    \A requester \in DOMAIN users, book \in DOMAIN books :
        Cardinality(PendingFor(requester, book)) <= 1

\* A pair with a decided request and, after it, a pending one.
C4_Witness ==
    \E r1, r2 \in DOMAIN exchange_requests :
        /\ r1 < r2
        /\ exchange_requests[r1].requester_id = exchange_requests[r2].requester_id
        /\ exchange_requests[r1].book_id = exchange_requests[r2].book_id
        /\ Decided(exchange_requests[r1])
        /\ exchange_requests[r2].status = "pending"

\* C5: a create_request for another user's book fails with 409 and adds no
\* row while the caller has a pending request for that book; when the
\* caller has none (never asked, or every earlier request was decided) it
\* succeeds with 201 and appends one pending request.
C5_PendingBlocksDecidedAllows ==
    [][ ( /\ last'.op = "request_exchange"
          /\ last'.user_id # NoUser
          /\ last'.arg \in DOMAIN books
          /\ books[last'.arg].user_id # last'.user_id )
        => IF PendingFor(last'.user_id, last'.arg) # {}
           THEN /\ last'.code = 409
                /\ exchange_requests' = exchange_requests
           ELSE /\ last'.code = 201
                /\ Len(exchange_requests') = Len(exchange_requests) + 1
                /\ SubSeq(exchange_requests', 1, Len(exchange_requests))
                      = exchange_requests
                /\ LET new == exchange_requests'[Len(exchange_requests')]
                   IN  /\ new.status = "pending"
                       /\ new.requester_id = last'.user_id
                       /\ new.book_id = last'.arg ]_vars

\* A requester has just asked again, with success, for a book an earlier
\* request of theirs for which was decided.
C5_Witness ==
    /\ last.op = "request_exchange"
    /\ last.code = 201
    /\ \E r \in 1..(Len(exchange_requests) - 1) :
          /\ exchange_requests[r].requester_id = last.user_id
          /\ exchange_requests[r].book_id = last.arg
          /\ Decided(exchange_requests[r])

\* C6: create_request by the owner of the book fails with 400 and leaves the
\* requests as they are; every stored request has requester # owner.
C6_NoSelfRequest ==
    [][ /\ ( /\ last'.op = "request_exchange"
             /\ last'.user_id # NoUser
             /\ last'.arg \in DOMAIN books
             /\ books[last'.arg].user_id = last'.user_id )
           => /\ last'.code = 400
              /\ exchange_requests' = exchange_requests
        /\ \A r \in DOMAIN exchange_requests' :
              exchange_requests'[r].requester_id # exchange_requests'[r].owner_id
      ]_vars

\* An owner has just asked for their own book, with requests in the store.
C6_Witness ==
    /\ last.op = "request_exchange"
    /\ last.code = 400
    /\ last.arg \in DOMAIN books
    /\ books[last.arg].user_id = last.user_id
    /\ exchange_requests # <<>>

\* C7: a decide call (decision accepted or rejected) by a user who is not
\* the owner of the request, the requester included, fails with 403 and
\* leaves the requests (status, updated_at) and the CompletedExchange rows
\* as they are; on a request id that does not exist it fails with 404 and
\* changes nothing.
C7_OnlyOwnerDecides ==
    [][ ( /\ last'.op = "update_request"
          /\ last'.user_id # NoUser
          /\ last'.val \in {"accepted", "rejected"} )
        => IF last'.arg \notin DOMAIN exchange_requests
           THEN /\ last'.code = 404
                /\ UNCHANGED <<store, active_tokens>>
           ELSE exchange_requests[last'.arg].owner_id # last'.user_id
                   => /\ last'.code = 403
                      /\ UNCHANGED <<store, active_tokens>> ]_vars

\* The requester has just tried to accept their own pending request, later
\* than it was created.
C7_Witness ==
    /\ last.op = "update_request"
    /\ last.code = 403
    /\ last.val = "accepted"
    /\ last.user_id = exchange_requests[last.arg].requester_id
    /\ exchange_requests[last.arg].status = "pending"
    /\ now > exchange_requests[last.arg].updated_at

\* The CompletedExchange row of request r is the one row the step appends.
AppendsRowOf(r) ==
    LET n == Len(completed_exchanges)
    IN  /\ Len(completed_exchanges') = n + 1
        /\ SubSeq(completed_exchanges', 1, n) = completed_exchanges
        /\ completed_exchanges'[n + 1].user1_id = exchange_requests'[r].owner_id
        /\ completed_exchanges'[n + 1].user2_id = exchange_requests'[r].requester_id
        /\ completed_exchanges'[n + 1].book_id = exchange_requests'[r].book_id

\* C8: the status update and the CompletedExchange insert of an accept
\* become visible to other connections in one step: a request turns accepted
\* in the committed store only together with its row, a row appears only
\* for a request that is accepted in the same committed store, and a call
\* that ends in an exception leaves the committed store as it was, with
\* its transaction gone.
C8_AcceptAtomic ==
    [][ /\ \A r \in DOMAIN exchange_requests :
              ( /\ exchange_requests[r].status # "accepted"
                /\ exchange_requests'[r].status = "accepted" ) => AppendsRowOf(r)
        /\ completed_exchanges' # completed_exchanges =>
              \E r \in DOMAIN exchange_requests' :
                  exchange_requests'[r].status = "accepted" /\ AppendsRowOf(r)
        /\ \A p \in Procs :
              (pc[p] # "done" /\ pc'[p] = "done" /\ call'[p].code = 500) =>
                  /\ UNCHANGED <<exchange_requests, completed_exchanges>>
                  /\ ~tx'[p].open ]_vars

\* One call has failed at its INSERT, after its UPDATE; another has run the
\* UPDATE and the INSERT of an accept and not yet committed; the committed
\* store still shows the request pending and no CompletedExchange row.
C8_Witness ==
    \E p, q \in Procs :
        /\ p # q
        /\ pc[q] = "done" /\ call[q].code = 500 /\ call[q].failed_at = "insert"
        /\ pc[p] = "commit" /\ call[p].status = "accepted"
        /\ Len(tx[p].completed_exchanges) = 1
        /\ exchange_requests[call[p].request_id].status = "pending"
        /\ completed_exchanges = <<>>

\* A token get_user_from_token would accept now.
Valid(t) == t \in DOMAIN active_tokens /\ now <= active_tokens[t].expires

\* A token revoked by logout or past the expiry given at issuance.
Dead(t) == t \in DOMAIN issued /\ (t \in revoked \/ now > issued[t])

\* C9: once a token is revoked by logout or past its 24-hour expiry it is
\* never valid again, and every authenticated handler called with it answers
\* 401 and leaves the store as it is.
C9_DeadTokenRejected ==
    [][ \A t \in Tokens :
           /\ Dead(t) => Dead(t)'
           /\ Dead(t)' => ~Valid(t)'
           /\ ( /\ Dead(t)
                /\ last'.op \in AuthOps
                /\ last'.hdr \in {"Bearer " \o t, t} )
              => /\ last'.code = 401
                 /\ store' = store ]_vars

\* With one token revoked, a handler has just turned away another token,
\* which is past its expiry, while the store holds a book.
C9_Witness ==
    /\ last.op \in AuthOps
    /\ last.code = 401
    /\ revoked # {}
    /\ books # <<>>
    /\ \E t \in Tokens \ revoked :
          /\ last.hdr = "Bearer " \o t
          /\ t \in DOMAIN issued
          /\ now > issued[t]

\* C10: an authenticated handler accepts a call only if its Authorization
\* header is "Bearer <token>" with <token> a live registry entry; any other
\* header (missing, malformed, the bare token, an unknown token) gets 401.
C10_OnlyBearerAccepted ==
    [][ last'.op \in AuthOps =>
           \/ last'.code = 401
           \/ \E t \in Tokens : last'.hdr = "Bearer " \o t /\ Valid(t) ]_vars

\* C11: get_user_from_token(token) returns the bound user id exactly when the
\* token is in the registry and the clock is not later than the expiry given
\* at issuance (issuance + 24 h), else None; it removes exactly the entry of
\* a present, expired token and otherwise leaves the registry as it is; a
\* successful call does not move the expiry.
C11_ResolveContract ==
    [][ last'.op \in AuthOps =>
           LET t == bearer_token(last'.hdr)
               present == t \in DOMAIN active_tokens
               fresh == present /\ now <= issued[t]
           IN  /\ last'.user_id = IF fresh THEN active_tokens[t].user_id ELSE NoUser
               /\ fresh => last'.user_id \in DOMAIN users
               /\ active_tokens' = IF present /\ ~fresh THEN Drop(active_tokens, t)
                                   ELSE active_tokens
               /\ fresh => active_tokens'[t].expires = issued[t] ]_vars

\* A handler has just turned away a token past its expiry, which is gone from
\* the registry without a logout, while a younger token is still there, at
\* the very hour of its expiry.
C11_Witness ==
    /\ last.op \in AuthOps
    /\ last.code = 401
    /\ \E t \in DOMAIN issued \ (DOMAIN active_tokens \cup revoked) :
          /\ bearer_token(last.hdr) = t
          /\ now > issued[t]
    /\ \E u \in DOMAIN active_tokens : now = active_tokens[u].expires

\* A signup with the body c has succeeded: the row it inserted is there.
SignedUp(c) ==
    \E i \in DOMAIN users :
        /\ users[i].username = strip(c.username)
        /\ users[i].password_hash = hash_password(c.password)

UserOf(c) == CHOOSE i \in DOMAIN users : users[i].username = strip(c.username)

\* The call has handed out token, never handed out before, bound to user_id.
IssuesFresh(token, user_id) ==
    /\ token \notin DOMAIN issued
    /\ token \in DOMAIN active_tokens'
    /\ active_tokens'[token].user_id = user_id
    /\ \A t \in DOMAIN active_tokens : active_tokens'[t] = active_tokens[t]

\* C12: a signup that answers 201 leaves the user and a token bound to the
\* new user id; from then on, whatever else is called, every login with the
\* same username and password answers 200 with a token that was never
\* issued before, bound to that user id.
C12_LoginAfterSignup ==
    [][ \A c \in SignupInputs :
           /\ ( /\ last'.op = "signup" /\ last'.code = 201
                 /\ signup(c.username, c.email, c.password) )
                 => /\ SignedUp(c)'
                    /\ last'.user_id = UserOf(c)'
                    /\ last'.user_id \notin DOMAIN users
                    /\ IssuesFresh(last'.val, last'.user_id)
           /\ SignedUp(c) => SignedUp(c)' /\ UserOf(c)' = UserOf(c)
           /\ ( SignedUp(c) /\ last'.op = "login" /\ login(c.username, c.password) )
                 => /\ last'.code = 200
                    /\ last'.user_id = UserOf(c)
                    /\ IssuesFresh(last'.val, UserOf(c)) ]_vars

\* The second user has just logged in, as the third or a later token
\* holder, after a logout.
C12_Witness ==
    /\ last.op = "login"
    /\ last.code = 200
    /\ last.user_id = 2
    /\ revoked # {}
    /\ Cardinality(DOMAIN issued) >= 3

\* C13: a signup whose username or e-mail is held by a user answers 409, one
\* with a missing field or a password under 6 characters answers 400; such a
\* call adds no user and issues no token; usernames and e-mails are unique
\* among users in every state, with signups interleaved statement by
\* statement.  (A statement that raises another exception answers 500, and
\* changes nothing either.)
C13_SignupConflict ==
    [][ /\ \A i, j \in DOMAIN users' :
              i # j => /\ users'[i].username # users'[j].username
                       /\ users'[i].email # users'[j].email
        /\ \A p \in Procs :
              /\ ( pc[p] \in {"idle", "done"} /\ pc'[p] # pc[p]
                    /\ ( call'[p].username = "" \/ call'[p].email = ""
                          \/ Len(call'[p].password) < 6 ) )
                    => pc'[p] = "done" /\ call'[p].code = 400
              /\ ( pc[p] = "insert" /\ pc'[p] # "insert"
                    /\ ( UsernameTaken(call[p].username)
                          \/ EmailTaken(call[p].email) ) )
                    => pc'[p] = "done" /\ call'[p].code \in {409, 500}
                       /\ (call'[p].code = 500 => call'[p].failed_at = "insert")
              /\ ( pc[p] # "done" /\ pc'[p] = "done"
                    /\ call'[p].code \in {400, 409, 500} )
                    => /\ UNCHANGED <<users, active_tokens, issued>>
                       /\ call'[p].user_id = NoUser
                       /\ ~tx'[p].open
        /\ users' # users =>
              \E p \in Procs : pc[p] = "commit" /\ pc'[p] = "token"
                                /\ Len(users') = Len(users) + 1
        /\ active_tokens' # active_tokens =>
              \E p \in Procs : pc[p] = "token" /\ call'[p].code = 201 ]_vars

\* Two calls with the same e-mail address and different usernames were both
\* past validation at once; one has its 201, the other has just got its 409.
C13_Witness ==
    \E p, q \in Procs :
        /\ p # q
        /\ pc[p] = "done" /\ call[p].code = 201
        /\ pc[q] = "done" /\ call[q].code = 409
        /\ call[p].email = call[q].email
        /\ call[p].username # call[q].username
        /\ Len(users) = 1

\* C14: an authenticated request_exchange with a book id answers 404 when no
\* such book exists, else 400 when the caller owns the book, else 409 when
\* the caller has a pending request for it, each time leaving the requests
\* as they are; else 201, appending exactly one request (pending,
\* requester = caller, owner = the owner of the book at that moment) and
\* returning its id.
C14_CreateRequestOrder ==
    [][ ( /\ last'.op = "request_exchange"
          /\ last'.user_id # NoUser
          /\ last'.arg # 0 )
        => LET u == last'.user_id
               b == last'.arg
               n == Len(exchange_requests)
           IN  IF b \notin DOMAIN books
               THEN last'.code = 404 /\ exchange_requests' = exchange_requests
               ELSE IF books[b].user_id = u
               THEN last'.code = 400 /\ exchange_requests' = exchange_requests
               ELSE IF PendingFor(u, b) # {}
               THEN last'.code = 409 /\ exchange_requests' = exchange_requests
               ELSE /\ last'.code = 201
                    /\ Len(exchange_requests') = n + 1
                    /\ SubSeq(exchange_requests', 1, n) = exchange_requests
                    /\ last'.id = n + 1
                    /\ exchange_requests'[n + 1].status = "pending"
                    /\ exchange_requests'[n + 1].requester_id = u
                    /\ exchange_requests'[n + 1].owner_id = books[b].user_id
                    /\ exchange_requests'[n + 1].book_id = b ]_vars

\* The second request has just been created, for a book of another owner
\* than the first one's, and its id returned.
C14_Witness ==
    /\ last.op = "request_exchange"
    /\ last.code = 201
    /\ last.id = 2
    /\ exchange_requests[2].owner_id = books[last.arg].user_id
    /\ exchange_requests[2].owner_id # exchange_requests[1].owner_id

\* The rows of a table that user_id holds under (title, author).
BooksOf(rows, user_id, title, author) ==
    {b \in DOMAIN rows : /\ rows[b].user_id = user_id
                         /\ rows[b].title = title
                         /\ rows[b].author = author}

FavoritesOf(rows, user_id, title, author) ==
    {f \in DOMAIN rows : /\ rows[f].user_id = user_id
                         /\ rows[f].book_title = title
                         /\ rows[f].book_author = author}

\* C15: add_book answers 409 and adds nothing when the caller already has a
\* book with the same (title, author), and else adds one; add_favorite does
\* the same on favorites; no user ever has two books, or two favorites, with
\* the same (title, author).
C15_NoDuplicateTitles ==
    [][ /\ \A body \in LibraryBodies :
              LET u == last'.user_id
                  t == strip(body.title)
                  a == strip(body.author)
              IN  /\ ( /\ last'.op = "add_book" /\ u # NoUser /\ t # "" /\ a # ""
                        /\ add_book(last'.hdr, body.title, body.author) )
                      => IF BooksOf(books, u, t, a) # {}
                         THEN last'.code = 409 /\ books' = books
                         ELSE /\ last'.code = 201
                              /\ Len(books') = Len(books) + 1
                              /\ SubSeq(books', 1, Len(books)) = books
                              /\ BooksOf(books', u, t, a) = {Len(books')}
                  /\ ( /\ last'.op = "add_favorite" /\ u # NoUser /\ t # "" /\ a # ""
                        /\ add_favorite(last'.hdr, body.title, body.author) )
                      => IF FavoritesOf(favorites, u, t, a) # {}
                         THEN last'.code = 409 /\ favorites' = favorites
                         ELSE /\ last'.code = 201
                              /\ Len(favorites') = Len(favorites) + 1
                              /\ SubSeq(favorites', 1, Len(favorites)) = favorites
                              /\ FavoritesOf(favorites', u, t, a) = {Len(favorites')}
        /\ \A i, j \in DOMAIN books' :
              i \in BooksOf(books', books'[j].user_id, books'[j].title,
                            books'[j].author) => i = j
        /\ \A i, j \in DOMAIN favorites' :
              i \in FavoritesOf(favorites', favorites'[j].user_id,
                                favorites'[j].book_title,
                                favorites'[j].book_author) => i = j ]_vars

\* Both users hold the same (title, author), as a book and as a favorite, and
\* a user has just been refused a second copy sent with padding.
C15_Witness ==
    /\ last.op \in {"add_book", "add_favorite"}
    /\ last.code = 409
    /\ \E i, j \in DOMAIN books :
          /\ books[i].user_id # books[j].user_id
          /\ books[i].title = books[j].title
          /\ books[i].author = books[j].author
    /\ \E i, j \in DOMAIN favorites :
          /\ favorites[i].user_id # favorites[j].user_id
          /\ favorites[i].book_title = favorites[j].book_title
          /\ favorites[i].book_author = favorites[j].book_author

\* C16: with lookup, expiry test and eviction as separate steps and several
\* calls at once on the same expired token, every call completes with 'not
\* found' (401 behind require_auth, 200 for logout) and none with an
\* internal error; when it completes the token is out of the registry, and
\* no step touches another entry.
C16_ConcurrentEviction ==
    [][ \A p \in Procs :
           ( /\ pc[p] # "done"
             /\ pc'[p] = "done"
             /\ call'[p].token \in DOMAIN issued
             /\ now > issued[call'[p].token] )
           => /\ call'[p].code = IF call'[p].op = "logout" THEN 200 ELSE 401
              /\ call'[p].token \notin DOMAIN active_tokens'
              /\ \A t \in DOMAIN active_tokens \ {call'[p].token} :
                    /\ t \in DOMAIN active_tokens'
                    /\ active_tokens'[t] = active_tokens[t] ]_vars

\* The wrapper of require_auth lets a call with this header through.
Accepted(hdr) == require_auth(hdr).user_id # NoUser

\* C17: logout answers 200 for every request; a header that the handlers
\* behind require_auth accept is not accepted any more after a logout with
\* it; the entries of all other tokens stay as they are.
C17_LogoutRevokes ==
    [][ \A hdr \in Headers :
           ( last'.op = "logout" /\ last'.hdr = hdr )
           => /\ last'.code = 200
              /\ Accepted(hdr) => ~Accepted(hdr)'
              /\ \A t \in DOMAIN active_tokens \ {bearer_token(hdr)} :
                    /\ t \in DOMAIN active_tokens'
                    /\ active_tokens'[t] = active_tokens[t] ]_vars

\* The elements of a sequence.
Range(s) == {s[i] : i \in DOMAIN s}

\* The sequence of request ids lists each id once, newest created first.
NewestFirst(s) ==
    \A i, j \in DOMAIN s :
        i < j => /\ s[i] # s[j]
                 /\ exchange_requests[s[i]].created_at
                       >= exchange_requests[s[j]].created_at

\* C18: my_requests returns as 'sent' exactly the requests whose requester
\* is the caller and as 'received' exactly those whose owner is the caller,
\* of every status, each list newest created first; a request of which the
\* caller is neither is in no list, and no request is in both.
C18_ListRequests ==
    ( last.op = "my_requests" /\ last.code = 200 )
    => LET u == last.user_id
           sent == last.body.sent
           received == last.body.received
       IN  /\ Range(sent) = {r \in DOMAIN exchange_requests :
                                exchange_requests[r].requester_id = u}
           /\ Range(received) = {r \in DOMAIN exchange_requests :
                                    exchange_requests[r].owner_id = u}
           /\ NewestFirst(sent)
           /\ NewestFirst(received)
           /\ Range(sent) \cap Range(received) = {}
           /\ \A r \in DOMAIN exchange_requests :
                 ( exchange_requests[r].requester_id # u
                   /\ exchange_requests[r].owner_id # u )
                 => r \notin Range(sent) \cup Range(received)

\* A user has just listed two requests they sent, an older one that was
\* accepted before the newer, still pending one, while the other list is
\* empty.
C18_Witness ==
    /\ last.op = "my_requests"
    /\ last.code = 200
    /\ Len(last.body.sent) = 2
    /\ last.body.received = <<>>
    /\ exchange_requests[last.body.sent[1]].status = "pending"
    /\ exchange_requests[last.body.sent[2]].status = "accepted"
    /\ exchange_requests[last.body.sent[1]].created_at
          > exchange_requests[last.body.sent[2]].created_at

\* C19: get_exchange_books returns exactly the books whose owner is another
\* user than the caller, each once and with its owner's id and username, and
\* none of the caller's own books, whatever requests were made and accepted.
C19_ExchangeListing ==
    ( last.op = "get_exchange_books" /\ last.code = 200 )
    => LET u == last.user_id
           rows == last.body
       IN  /\ {rows[i].id : i \in DOMAIN rows}
                 = {b \in DOMAIN books : books[b].user_id # u}
           /\ \A i, j \in DOMAIN rows : rows[i].id = rows[j].id => i = j
           /\ \A i \in DOMAIN rows :
                 /\ rows[i].owner_id = books[rows[i].id].user_id
                 /\ rows[i].owner_id # u
                 /\ rows[i].owner_username = users[rows[i].owner_id].username

\* A user who owns a book has just been shown the book of another owner, a
\* request of theirs for which was accepted.
C19_Witness ==
    /\ last.op = "get_exchange_books"
    /\ last.code = 200
    /\ Len(last.body) = 1
    /\ \E b \in DOMAIN books : books[b].user_id = last.user_id
    /\ \E r \in DOMAIN exchange_requests :
          /\ exchange_requests[r].requester_id = last.user_id
          /\ exchange_requests[r].book_id = last.body[1].id
          /\ exchange_requests[r].status = "accepted"
    /\ completed_exchanges # <<>>

\* hay contains needle as a substring, letter case disregarded.
ci_contains(hay, needle) ==
    \E i \in 0..(Len(hay) - Len(needle)) :
        lower(SubSeq(hay, i + 1, i + Len(needle))) = lower(needle)

\* The catalog positions whose title or author contains the query.
Matching(query) ==
    {i \in DOMAIN all_books : \/ ci_contains(all_books[i].title, query)
                              \/ ci_contains(all_books[i].author, query)}

\* The response lists, in catalog order, exactly the entries matching the
\* query, or the first four entries when none matches; it is not empty and
\* its count is the number of entries listed.
SearchResult(query) ==
    LET books_out == last.body.books
    IN  /\ \A i, j \in DOMAIN books_out : i < j => books_out[i] < books_out[j]
        /\ IF Matching(query) # {} THEN Range(books_out) = Matching(query)
           ELSE books_out = <<1, 2, 3, 4>>
        /\ books_out # <<>>
        /\ last.body.count = Len(books_out)

\* C20 as stated: for every non-empty query the search answers with the
\* entries whose title or author contains the query, letter case
\* disregarded, or with the first four entries when there is none.
C20_SearchLiteral ==
    ( last.op = "search_books" /\ last.val # "" )
    => last.code = 200 /\ SearchResult(last.val)

\* C20, amended: the query is first trimmed of surrounding blanks; a query
\* that is empty after trimming is answered 400; any other is answered with
\* the entries whose title or author contains the trimmed query, letter case
\* disregarded, in catalog order, or with the first four entries when there
\* is none; the result is never empty and count is its length.
C20_SearchTrimmed ==
    last.op = "search_books"
    => IF strip(last.val) = "" THEN last.code = 400
       ELSE last.code = 200 /\ SearchResult(strip(last.val))

\* A padded, capitalised query has just been answered with the one entry
\* that contains it once trimmed.
C20_Witness ==
    /\ last.op = "search_books"
    /\ last.code = 200
    /\ last.val = " Harry "
    /\ last.body.books = <<1>>
    /\ last.body.count = 1

\* C21: every call releases the store connection it opened before it returns,
\* whichever way it returns: a signup call that has returned (201, 400, 409
\* or 500) has no connection open.
C21_ConnectionReleased ==
    \A p \in Procs : pc[p] = "done" => call[p].conn # "open"

\* C22: the number GET /health reports is the number of issued tokens that
\* are neither revoked nor expired at that moment, which is the number of
\* tokens a handler behind require_auth would accept.
C22_HealthCount ==
    last.op = "health_check"
    => /\ last.body.active_sessions
            = Cardinality({t \in DOMAIN issued : t \notin revoked /\ now <= issued[t]})
       /\ last.body.active_sessions
            = Cardinality({t \in DOMAIN issued : Accepted("Bearer " \o t)})

\* The answers the client expects of addBook, myBooks and exchange.
ClientAccepted ==
    /\ last'.op = "add_book" => last'.code \in {201, 409}
    /\ last'.op \in {"my_books", "get_exchange_books"} => last'.code = 200

C24_DecideFrame ==
    [][ last'.op = "update_request"
        => /\ books' = books
           /\ users' = users
           /\ \A u \in DOMAIN users : exchange_book_ids(u)' = exchange_book_ids(u)
           /\ DOMAIN exchange_requests' = DOMAIN exchange_requests
           /\ \A r \in DOMAIN exchange_requests :
                 r # last'.arg => exchange_requests'[r] = exchange_requests[r]
           /\ last'.code # 200 => UNCHANGED <<exchange_requests, completed_exchanges>>
           /\ last'.code = 200 =>
                 /\ exchange_requests'[last'.arg] =
                       [exchange_requests[last'.arg] EXCEPT !.status = last'.val,
                                                           !.updated_at = now]
                 /\ Len(completed_exchanges') =
                       Len(completed_exchanges)
                         + (IF last'.val = "accepted" THEN 1 ELSE 0)
                 /\ SubSeq(completed_exchanges', 1, Len(completed_exchanges))
                       = completed_exchanges ]_vars

\* Two users asked for the same book; the owner accepted one request while
\* the other stayed pending, and has just accepted the other: there are two
\* completed exchanges for the one book, which is still its owner's and
\* still listed for both requesters.
C24_Witness ==
    /\ last.op = "update_request"
    /\ last.code = 200
    /\ last.pre = "pending"
    /\ Len(exchange_requests) = 2
    /\ exchange_requests[1].book_id = exchange_requests[2].book_id
    /\ exchange_requests[1].requester_id # exchange_requests[2].requester_id
    /\ \A r \in 1..2 : exchange_requests[r].status = "accepted"
    /\ exchange_requests[1].updated_at < exchange_requests[2].updated_at
    /\ Len(completed_exchanges) = 2
    /\ completed_exchanges[1].book_id = completed_exchanges[2].book_id
    /\ completed_exchanges[1].user2_id # completed_exchanges[2].user2_id
    /\ \A r \in 1..2 :
          /\ books[exchange_requests[r].book_id].user_id = exchange_requests[r].owner_id
          /\ exchange_requests[r].book_id
                \in exchange_book_ids(exchange_requests[r].requester_id)

\* C25: with the duplicate check and the INSERT as separate steps of each
\* call and calls interleaved, no two pending requests have the same
\* requester and book, and no two books have the same user, title and
\* author.
C25_NoDuplicateUnderRace ==
    /\ \A r1, r2 \in DOMAIN exchange_requests :
          ( /\ exchange_requests[r1].requester_id = exchange_requests[r2].requester_id
            /\ exchange_requests[r1].book_id = exchange_requests[r2].book_id
            /\ exchange_requests[r1].status = "pending"
            /\ exchange_requests[r2].status = "pending" )
          => r1 = r2
    /\ \A b1, b2 \in DOMAIN books :
          ( /\ books[b1].user_id = books[b2].user_id
            /\ books[b1].title = books[b2].title
            /\ books[b1].author = books[b2].author )
          => b1 = b2

\* The books (with their ids) and the favorites that belong to other users
\* than user_id.
BooksOfOthers(rows, user_id) ==
    {<<b, rows[b]>> : b \in {x \in DOMAIN rows : rows[x].user_id # user_id}}

FavoritesOfOthers(rows, user_id) ==
    {rows[f] : f \in {x \in DOMAIN rows : rows[x].user_id # user_id}}

\* C26: remove_favorite removes the favorite of that id when it is the
\* caller's, and else answers 404 and leaves all favorites in place;
\* my_books and my_favorites list exactly the caller's rows; no call, by
\* whatever user or by none, adds, changes or removes a book or a favorite
\* of another user than the caller.
C26_LibraryIsolation ==
    [][ LET u == last'.user_id
        IN  /\ ( last'.op = "remove_favorite" /\ u # NoUser )
               => LET own == {f \in DOMAIN favorites :
                                 favorites[f].id = last'.arg
                                 /\ favorites[f].user_id = u}
                  IN  IF own = {}
                      THEN last'.code = 404 /\ favorites' = favorites
                      ELSE /\ last'.code = 200
                           /\ Range(favorites')
                                 = Range(favorites) \ {favorites[f] : f \in own}
                           /\ Len(favorites') = Len(favorites) - 1
            /\ ( last'.op = "my_books" /\ last'.code = 200 )
               => LET rows == last'.body.books
                  IN  /\ {rows[i].id : i \in DOMAIN rows}
                            = {b \in DOMAIN books : books[b].user_id = u}
                      /\ \A i, j \in DOMAIN rows : rows[i].id = rows[j].id => i = j
                      /\ last'.body.count = Len(rows)
            /\ ( last'.op = "my_favorites" /\ last'.code = 200 )
               => LET rows == last'.body.favorites
                  IN  /\ {rows[i].id : i \in DOMAIN rows}
                            = {favorites[f].id : f \in {x \in DOMAIN favorites :
                                                          favorites[x].user_id = u}}
                      /\ \A i, j \in DOMAIN rows : rows[i].id = rows[j].id => i = j
                      /\ last'.body.count = Len(rows)
            /\ BooksOfOthers(books', u) = BooksOfOthers(books, u)
            /\ FavoritesOfOthers(favorites', u) = FavoritesOfOthers(favorites, u)
            /\ u = NoUser => books' = books /\ favorites' = favorites ]_vars

\* Both users have a favorite, and one of them has just asked to remove the
\* other's and been answered 404.
C26_Witness ==
    /\ last.op = "remove_favorite"
    /\ last.code = 404
    /\ last.user_id # NoUser
    /\ \E f \in DOMAIN favorites :
          favorites[f].id = last.arg /\ favorites[f].user_id # last.user_id
    /\ \E f \in DOMAIN favorites : favorites[f].user_id = last.user_id

====
